---- MODULE Spec2Model ----
(***************************************************************************)
(* sixer: the import planner (parse_import_groups, parse_import,           *)
(* Patcher.add_import_names / add_import / add_import_six), the rewrite    *)
(* operations that request imports, and Patcher.patch.                     *)
(*                                                                         *)
(* File contents are TLA+ strings.  Offsets are Python offsets (0-based,   *)
(* half-open slices); Slice(s, a, b) is s[a:b].                            *)
(***************************************************************************)
EXTENDS Integers, Sequences, FiniteSets, TLC

(***************************************************************************)
(* Bounds of the model.                                                    *)
(***************************************************************************)
\* import groups of an initial content
MaxGroups == 3
\* import requests applied in succession to one content
MaxRequests == 2

(***************************************************************************)
(* Python str primitives.                                                  *)
(***************************************************************************)
NL == "\n"

Max(a, b) == IF a < b THEN b ELSE a

\* s[a:b] for 0 <= a, 0 <= b (Python clips to the length)
Slice(s, a, b) ==
    IF a >= b \/ a >= Len(s) THEN "" ELSE SubSeq(s, a + 1, IF b < Len(s) THEN b ELSE Len(s))

\* s[a:]
SliceFrom(s, a) == Slice(s, a, Len(s))

\* s[i:i+1]; the empty string outside s
CharAt(s, i) == IF i < 0 THEN "" ELSE Slice(s, i, i + 1)

\* s.startswith(prefix, p)
StartsWithAt(s, p, prefix) == Slice(s, p, p + Len(prefix)) = prefix

\* s.endswith(suffix)
EndsWith(s, suffix) ==
    /\ Len(s) >= Len(suffix)
    /\ SliceFrom(s, Len(s) - Len(suffix)) = suffix

\* the least element of a non-empty set of integers
MinOf(S) == CHOOSE i \in S : \A j \in S : i <= j

\* the least element of a set of offsets, or -1 when it is empty
FirstOf(S) == IF S = {} THEN -1 ELSE MinOf(S)

\* the greatest element of a set of offsets, or d when it is empty
LastOf(S, d) == IF S = {} THEN d ELSE -MinOf({-i : i \in S})

RECURSIVE Find(_, _, _)
\* s.find(sub, from): the lowest offset >= from where sub occurs, or -1
Find(s, sub, from) ==
    IF from > Len(s) - Len(sub) THEN -1
    ELSE IF StartsWithAt(s, from, sub) THEN from
    ELSE Find(s, sub, from + 1)

\* sub in s
Contains(s, sub) == Find(s, sub, 0) # -1

\* the characters str.strip() removes, of those that occur in the model
Whitespace == {" ", "\n", "\t"}

\* s.rstrip()
RStrip(s) == Slice(s, 0, 1 + LastOf({i \in 0..(Len(s) - 1) : CharAt(s, i) \notin Whitespace}, -1))

\* s.lstrip()
LStrip(s) == SliceFrom(s, MinOf({i \in 0..Len(s) : CharAt(s, i) \notin Whitespace}))

\* s.strip()
Strip(s) == CHOOSE stripped \in {LStrip(right) : right \in {RStrip(s)}} : TRUE

RECURSIVE Split(_, _)
\* s.split(sep) for a one-character sep: a sequence of strings
Split(s, sep) ==
    CHOOSE parts \in {IF i = -1 THEN <<s>>
                      ELSE <<Slice(s, 0, i)>>
                           \o (CHOOSE rest \in {Split(tail, sep) : tail \in {SliceFrom(s, i + 1)}} : TRUE) :
                        i \in {Find(s, sep, 0)}} : TRUE

\* The characters of the model in code point order; Ord gives a
\* character's rank, which orders characters as Python orders them.
Ascii == "\t\n \"#'()*,.0123456789:=ABCDEFGHIJKLMNOPQRSTUVWXYZ[]_abcdefghijklmnopqrstuvwxyz"

Ord(c) == CHOOSE i \in 0..(Len(Ascii) - 1) : CharAt(Ascii, i) = c

\* a < b on str: at the first offset where they differ (the end of the
\* shorter one counts as the least character)
StrLess(a, b) ==
    LET d == MinOf({i \in 0..Max(Len(a), Len(b)) : CharAt(a, i) # CharAt(b, i)})
    IN  /\ a # b
        /\ \/ d >= Len(a)
           \/ d < Len(b) /\ Ord(CharAt(a, d)) < Ord(CharAt(b, d))

RECURSIVE ListLess(_, _)
\* a < b on lists of str
ListLess(a, b) ==
    IF Len(b) = 0 THEN FALSE
    ELSE IF Len(a) = 0 THEN TRUE
    ELSE IF Head(a) = Head(b) THEN ListLess(Tail(a), Tail(b))
    ELSE StrLess(Head(a), Head(b))

\* the set of the characters of s
CharsOf(s) == {CharAt(s, i) : i \in 0..(Len(s) - 1)}

\* [a-zA-Z_]
Letters == CharsOf("ABCDEFGHIJKLMNOPQRSTUVWXYZ_abcdefghijklmnopqrstuvwxyz")

\* [0-9]
Digits == CharsOf("0123456789")

\* [a-zA-Z0-9_]
WordChars == Letters \cup Digits

RECURSIVE RunEnd(_, _, _)
\* the offset where the longest run of characters of class from p ends
RunEnd(s, p, class) == IF CharAt(s, p) \notin class THEN p ELSE RunEnd(s, p + 1, class)

\* the offset where the longest match of IDENTIFIER_REGEX at p ends, or p
\* when no identifier starts at p
IdentEnd(s, p) == IF CharAt(s, p) \in Letters THEN RunEnd(s, p + 1, WordChars) ELSE p

\* '^' under re.MULTILINE
AtLineStart(s, p) == p = 0 \/ CharAt(s, p - 1) = NL

\* '$' under re.MULTILINE
AtLineEnd(s, p) == p = Len(s) \/ CharAt(s, p) = NL

(***************************************************************************)
(* The module tables.  APPLICATION_MODULES is a module-level set that      *)
(* parse_options extends in place, so it is part of the state.             *)
(***************************************************************************)
VARIABLES APPLICATION_MODULES

STDLIB_MODULES ==
    {"StringIO", "copy", "csv", "datetime", "glob", "heapq", "importlib",
     "itertools", "json", "logging", "os", "re", "socket", "string", "sys",
     "textwrap", "traceback", "types", "unittest", "urlparse"}

THIRD_PARTY_MODULES ==
    {"djanjo", "eventlet", "keystoneclient", "mock", "mox3", "oslo",
     "selenium", "six", "subunit", "testtools", "webob", "wsme"}

\* the value of APPLICATION_MODULES when the module is loaded
APPLICATION_MODULES_DEFAULT ==
    {"ceilometer", "cinder", "congress", "glance", "glance_store", "horizon",
     "neutron", "nova", "openstack_dashboard", "swift"}

(***************************************************************************)
(* parse_import_groups: IMPORT_GROUP_REGEX and IMPORT_NAME_REGEX.          *)
(***************************************************************************)
\* '^(?:import|from) .*\n' at p: the offset after the line's newline, or -1
ImportLineEnd(s, p) ==
    IF /\ AtLineStart(s, p)
       /\ StartsWithAt(s, p, "import ") \/ StartsWithAt(s, p, "from ")
       /\ Find(s, NL, p) # -1
    THEN Find(s, NL, p) + 1
    ELSE -1

RECURSIVE ImportLinesEnd(_, _)
\* '(?:(?:import|from) .*\n)*' from e, greedy
ImportLinesEnd(s, e) ==
    IF ImportLineEnd(s, e) = -1 THEN e
    ELSE CHOOSE end \in {ImportLinesEnd(s, next) : next \in {ImportLineEnd(s, e)}} : TRUE

\* '\n*' from e, greedy
NewlinesEnd(s, e) == RunEnd(s, e, {NL})

RECURSIVE ImportGroupStart(_, _)
\* the lowest offset >= pos where an import line starts, or -1
ImportGroupStart(content, pos) ==
    IF pos > Len(content) THEN -1
    ELSE IF ImportLineEnd(content, pos) # -1 THEN pos
    ELSE ImportGroupStart(content, pos + 1)

\* IMPORT_GROUP_REGEX.search(content, pos): <<start, end>> of the leftmost
\* match, or <<>> for None
IMPORT_GROUP_REGEX_match(content, start) ==
    IF start = -1 THEN <<>>
    ELSE CHOOSE match \in {<<start, NewlinesEnd(content, e)>> :
                              e \in {ImportLinesEnd(content, ImportLineEnd(content, start))}} : TRUE

IMPORT_GROUP_REGEX_search(content, pos) ==
    CHOOSE match \in {IMPORT_GROUP_REGEX_match(content, start) :
                         start \in {ImportGroupStart(content, pos)}} : TRUE

\* the group(1) of every IMPORT_NAME_REGEX match in import_group, as a set
IMPORT_NAME_REGEX_names(import_group) ==
    LET NameAt(q) == Slice(import_group, q, IdentEnd(import_group, q))
        After(p) == IF StartsWithAt(import_group, p, "import ") THEN p + 7
                    ELSE IF StartsWithAt(import_group, p, "from ") THEN p + 5
                    ELSE -1
        hits == {p \in 0..(Len(import_group) - 1) :
                    /\ AtLineStart(import_group, p)
                    /\ After(p) # -1
                    /\ IdentEnd(import_group, After(p)) > After(p)}
    IN  {NameAt(After(p)) : p \in hits}

RECURSIVE parse_import_groups_from(_, _)
RECURSIVE parse_import_groups_match(_, _)
\* the loop of parse_import_groups, from pos
parse_import_groups_from(content, pos) ==
    parse_import_groups_match(content, IMPORT_GROUP_REGEX_search(content, pos))

\* one iteration of the loop, for what the search gave: the group of the
\* match and the groups after it, or the break
parse_import_groups_match(content, match) ==
    IF match = <<>> THEN <<>>
    ELSE <<[start |-> match[1], end |-> match[2],
            imports |-> IMPORT_NAME_REGEX_names(Slice(content, match[1], match[2]))]>>
         \o parse_import_groups_from(content, match[2])

parse_import_groups(content) == parse_import_groups_from(content, 0)

\* parse_import(line): [ok |-> TRUE, names |-> list], or ok FALSE for the
\* SyntaxError
\* the names of a 'from' line: line[5:pos2] split, and line[pos2 + 8:]; a
\* pos2 of -1 is Python's "all but the last character"
parse_import_from(line, pos2) ==
    Split(IF pos2 = -1 THEN Slice(line, 5, Max(5, Len(line) - 1)) ELSE Slice(line, 5, pos2), ".")
        \o <<SliceFrom(line, pos2 + 8)>>

\* parse_import after 'line = line.strip()'
parse_import_stripped(line) ==
    IF StartsWithAt(line, 0, "import ")
    THEN [ok |-> TRUE, names |-> Split(SliceFrom(line, 7), ".")]
    ELSE IF StartsWithAt(line, 0, "from ")
    THEN [ok |-> TRUE, names |-> parse_import_from(line, Find(line, " import ", 5))]
    ELSE [ok |-> FALSE, names |-> <<>>]

parse_import(line) ==
    CHOOSE parsed \in {parse_import_stripped(stripped) : stripped \in {Strip(line)}} : TRUE

\* get_line without the newline of the line
get_line_before(content, pos) == Slice(content, pos, Find(content, NL, pos))

\* get_line(content, pos); content.find gives -1 when no newline follows,
\* and content[pos:0] is then the empty string
get_line(content, pos) == Slice(content, pos, Find(content, NL, pos) + 1)

(***************************************************************************)
(* Patcher.add_import_names, add_import_six, add_import.  The result is a  *)
(* record: ok with the new text, how it was placed (kind: "first" when the *)
(* content has no import group, "new" for a new group at pos, "into" for   *)
(* an insertion into an existing group at pos, "present" when the line is  *)
(* already there), or not ok with the error raised.                        *)
(***************************************************************************)
\* AnyThirdParty with the names compared for equality
AnyThirdParty_exact(imports) == \E name \in imports : name \in THIRD_PARTY_MODULES

\* any(name.startswith(THIRD_PARTY_MODULES) for name in imports)
AnyThirdParty(imports) ==
    \E name \in imports : \E prefix \in THIRD_PARTY_MODULES : StartsWithAt(name, 0, prefix)

\* any(name in APPLICATION_MODULES for name in imports)
AnyApplication(imports) == \E name \in imports : name \in APPLICATION_MODULES

\* any(name in STDLIB_MODULES for name in imports)
AnyStdlib(imports) == \E name \in imports : name \in STDLIB_MODULES

\* ApplicationAnchor with the new group after the application group
ApplicationAnchor_after(g) == [kind |-> "new", pos |-> g.end, last_group |-> FALSE]

\* ApplicationAnchor with the line put into the application group
ApplicationAnchor_into(g) == [kind |-> "into", group |-> g]

\* 'create_new_import_group = (start, False)': a new group before the
\* application group g
ApplicationAnchor(g) == [kind |-> "new", pos |-> g.start, last_group |-> FALSE]

\* NoGroupLocated with the new group before the last group
NoGroupLocated_start(import_groups, seen_stdlib_group) ==
    IF seen_stdlib_group
    THEN [kind |-> "new", pos |-> import_groups[Len(import_groups)].start, last_group |-> TRUE]
    ELSE [kind |-> "error"]

\* NoGroupLocated with a position guessed when no stdlib group was seen
NoGroupLocated_guess(import_groups, seen_stdlib_group) ==
    IF import_groups # <<>>
    THEN [kind |-> "new", pos |-> import_groups[Len(import_groups)].end, last_group |-> TRUE]
    ELSE [kind |-> "error"]

\* the else branch of the for loop: a new group after the last group when a
\* stdlib group was seen, the exception otherwise
NoGroupLocated(import_groups, seen_stdlib_group) ==
    IF seen_stdlib_group
    THEN [kind |-> "new", pos |-> import_groups[Len(import_groups)].end, last_group |-> TRUE]
    ELSE [kind |-> "error"]

RECURSIVE LocateGroup(_, _, _)
\* LocateGroup with a new group before the third-party group it finds
LocateGroup_new(import_groups, i, seen_stdlib_group) ==
    IF i > Len(import_groups)
    THEN NoGroupLocated(import_groups, seen_stdlib_group)
    ELSE IF AnyThirdParty(import_groups[i].imports) \/ AnyApplication(import_groups[i].imports)
    THEN ApplicationAnchor(import_groups[i])
    ELSE LocateGroup(import_groups, i + 1,
                     seen_stdlib_group \/ AnyStdlib(import_groups[i].imports))

\* the for/else loop over import_groups, from index i: the third-party
\* group to insert into, the new group to create, or the exception
LocateGroup(import_groups, i, seen_stdlib_group) ==
    IF i > Len(import_groups)
    THEN NoGroupLocated(import_groups, seen_stdlib_group)
    ELSE LET g == import_groups[i]
         IN  IF AnyThirdParty(g.imports) THEN [kind |-> "into", group |-> g]
             ELSE IF AnyApplication(g.imports) THEN ApplicationAnchor(g)
             ELSE LocateGroup(import_groups, i + 1, seen_stdlib_group \/ AnyStdlib(g.imports))

\* NamesBefore with the comparison the other way round
NamesBefore_after(import_names, parsed) == parsed.ok /\ ListLess(parsed.names, import_names)

\* 'import_names < names' for what parse_import gave, when it did not raise
NamesBefore(import_names, parsed) == parsed.ok /\ ListLess(import_names, parsed.names)

RECURSIVE InsertPos(_, _, _, _)
RECURSIVE InsertPosLine(_, _, _, _, _)
\* the while loop that finds where in the group the line goes; -1 when an
\* iteration reads an empty line (pos would never advance)
InsertPos(content, pos, end, import_names) ==
    IF ~(pos < end) THEN pos
    ELSE InsertPosLine(content, pos, end, import_names, get_line(content, pos))

\* the body of the loop for the line at pos
InsertPosLine(content, pos, end, import_names, line) ==
    IF line = NL THEN pos
    ELSE IF NamesBefore(import_names, parse_import(line)) THEN pos
    ELSE IF Len(line) = 0 THEN -1
    ELSE InsertPos(content, pos + Len(line), end, import_names)

\* the groups left after 'del import_groups[0]' when the first group
\* imports __future__ only
ConsideredGroups(import_groups) ==
    IF Len(import_groups) > 0 /\ import_groups[1].imports = {"__future__"}
    THEN Tail(import_groups)
    ELSE import_groups

\* Locate with the loop for three groups too
Locate_scan(import_groups) == LocateGroup(import_groups, 1, FALSE)

\* 'import_groups[1]' when three groups are left, else the loop
Locate(import_groups) ==
    IF Len(import_groups) = 3
    THEN [kind |-> "into", group |-> import_groups[2]]
    ELSE LocateGroup(import_groups, 1, FALSE)

\* the text with a new import group at pos
NewGroupText(content, pos, last_group, import_line) ==
    LET part1 == Slice(content, 0, pos)
        newline1 == IF part1 = "" \/ EndsWith(part1, "\n\n") THEN "" ELSE NL
        newline2 == IF last_group THEN "\n\n" ELSE NL
    IN  part1 \o newline1 \o import_line \o newline2 \o SliceFrom(content, pos)

\* InsertAt with the character at pos overwritten
InsertAt_overwrite(content, pos, import_line) ==
    Slice(content, 0, pos) \o import_line \o SliceFrom(content, pos + 1)

\* 'content[:pos] + import_line + content[pos:]'
InsertAt(content, pos, import_line) ==
    Slice(content, 0, pos) \o import_line \o SliceFrom(content, pos)

\* the text when the content has no import group
FirstImportText(content, import_line) ==
    IF content # "" THEN import_line \o "\n\n" \o content ELSE import_line

\* the end of add_import_names: the line inserted at the pos the while
\* loop gave
add_import_names_at(content, import_line, import_groups, pos) ==
    IF pos = -1
    THEN [ok |-> FALSE, error |-> "hang", groups |-> import_groups]
    ELSE [ok |-> TRUE, kind |-> "into", pos |-> pos,
          text |-> InsertAt(content, pos, import_line)]

\* add_import_names once the group is located
add_import_names_located(content, import_line, import_names, import_groups, located) ==
    IF located.kind = "error"
    THEN [ok |-> FALSE, error |-> "placement", groups |-> import_groups]
    ELSE IF located.kind = "new"
    THEN [ok |-> TRUE, kind |-> "new", pos |-> located.pos,
          text |-> NewGroupText(content, located.pos, located.last_group, import_line)]
    ELSE add_import_names_at(content, import_line, import_groups,
                             InsertPos(content, located.group.start, located.group.end,
                                       import_names))

\* add_import_names once the import groups are parsed
add_import_names_groups(content, import_line, import_names, all_groups) ==
    IF Len(all_groups) = 0
    THEN [ok |-> TRUE, kind |-> "first", pos |-> 0,
          text |-> FirstImportText(content, import_line)]
    ELSE add_import_names_located(content, import_line, import_names,
                                  ConsideredGroups(all_groups),
                                  Locate(ConsideredGroups(all_groups)))

add_import_names(content, import_line, import_names) ==
    add_import_names_groups(content, RStrip(import_line) \o NL, import_names,
                            parse_import_groups(content))

\* IMPORT_SIX_REGEX.search(content): '^import six$' under re.MULTILINE
\* re.search("^" + re.escape(line) + "$", content, flags=re.MULTILINE)
LineSearch(line, content) ==
    \E p \in 0..Len(content) :
        /\ AtLineStart(content, p)
        /\ StartsWithAt(content, p, line)
        /\ AtLineEnd(content, p + Len(line))

Present(content0) == [ok |-> TRUE, kind |-> "present", pos |-> 0, text |-> content0]

add_import_six(content) ==
    IF LineSearch("import six", content) THEN Present(content)
    ELSE add_import_names(content, "import six", <<"six">>)

add_import(content, line) ==
    IF LineSearch(line, content) THEN Present(content)
    ELSE IF ~parse_import(line).ok THEN [ok |-> FALSE, error |-> "syntax", groups |-> <<>>]
    ELSE add_import_names(content, line, parse_import(line).names)

(***************************************************************************)
(* Helpers of the regular expressions.                                     *)
(***************************************************************************)
\* '\b' at p
WordBoundary(s, p) == (CharAt(s, p - 1) \in WordChars) # (CharAt(s, p) \in WordChars)

\* ' *' from p, greedy
SpacesEnd(s, p) == RunEnd(s, p, {" "})

RECURSIVE RunEndNot(_, _, _)
\* the offset where the longest run of characters not in stop ends
RunEndNot(s, p, stop) ==
    IF p >= Len(s) \/ CharAt(s, p) \in stop THEN p ELSE RunEndNot(s, p + 1, stop)

\* the offset e when the text c follows it in s, or -1; -1 for an e of -1
Before(s, e, c) == IF e # -1 /\ StartsWithAt(s, e, c) THEN e ELSE -1

\* the offset n after e, or -1 for an e of -1
After(e, n) == IF e = -1 THEN -1 ELSE e + n

\* the elements of a sequence, as a set
Range(seq) == {seq[i] : i \in DOMAIN seq}

RECURSIVE Sorted(_)
RECURSIVE SortedFrom(_, _)
\* sorted(S) for a set of str
Sorted(S) ==
    IF S = {} THEN <<>>
    ELSE SortedFrom(S, CHOOSE x \in S : \A y \in S : y = x \/ StrLess(x, y))

\* the least element m of S, then the others sorted
SortedFrom(S, m) == <<m>> \o Sorted(S \ {m})

\* what a patch returns when it made no import request
Patched(text) == [ok |-> TRUE, kind |-> "none", pos |-> 0, text |-> text]

(***************************************************************************)
(* SixMoves: the tables, the patterns and the replacements.  A pattern is  *)
(* an operator of (s, p) that gives the offset where its match at offset p *)
(* of s ends, or -1; a replacement is an operator of the match s[p:e].     *)
(***************************************************************************)
SIX_MODULE_MOVES ==
    [k \in {"BaseHTTPServer", "ConfigParser", "Cookie", "HTMLParser", "Queue",
            "SimpleHTTPServer", "SimpleXMLRPCServer", "__builtin__", "cPickle",
            "cookielib", "htmlentitydefs", "httplib", "repr", "xmlrpclib"} |->
        CASE k = "BaseHTTPServer" -> "BaseHTTPServer"
          [] k = "ConfigParser" -> "configparser"
          [] k = "Cookie" -> "http_cookies"
          [] k = "HTMLParser" -> "html_parser"
          [] k = "Queue" -> "queue"
          [] k = "SimpleHTTPServer" -> "SimpleHTTPServer"
          [] k = "SimpleXMLRPCServer" -> "xmlrpc_server"
          [] k = "__builtin__" -> "builtins"
          [] k = "cPickle" -> "cPickle"
          [] k = "cookielib" -> "http_cookiejar"
          [] k = "htmlentitydefs" -> "html_entities"
          [] k = "httplib" -> "http_client"
          [] k = "repr" -> "reprlib"
          [] k = "xmlrpclib" -> "xmlrpc_client"]

SIX_BUILTIN_MOVES ==
    [k \in {"reduce", "reload"} |-> IF k = "reduce" THEN "reduce" ELSE "reload_module"]

\* SIX_MOVES_REGEX at p: the offset after the module name, or -1 (no name
\* of the table is a prefix of another)
SixMovesEnd(s, p) ==
    LET ks == {k \in DOMAIN SIX_MODULE_MOVES : StartsWithAt(s, p, k)}
    IN  IF ks = {} THEN -1 ELSE p + Len(CHOOSE k \in ks : TRUE)

\* '\n\n?' at p: the offset after it, or -1
OneOrTwoNewlines(s, p) ==
    IF p = -1 \/ CharAt(s, p) # NL THEN -1
    ELSE IF CharAt(s, p + 1) = NL THEN p + 2 ELSE p + 1

\* the offset where '( as IDENTIFIER)?' from q ends, given that a newline
\* has to follow it; -1 when none does
AsNameEnd(s, q) ==
    IF q = -1 THEN -1
    ELSE IF /\ StartsWithAt(s, q, " as ")
            /\ IdentEnd(s, q + 4) > q + 4
            /\ CharAt(s, IdentEnd(s, q + 4)) = NL
    THEN IdentEnd(s, q + 4)
    ELSE IF CharAt(s, q) = NL THEN q
    ELSE -1

\* SixMoves.IMPORT_REGEX: '^import (MOVES)( as IDENT)?\n\n?'
SixMoves_IMPORT_REGEX(s, p) ==
    IF AtLineStart(s, p) /\ StartsWithAt(s, p, "import ")
    THEN OneOrTwoNewlines(s, AsNameEnd(s, SixMovesEnd(s, p + 7)))
    ELSE -1

RECURSIVE SymbolsEnd(_, _)
\* '(?:, IDENTIFIER)*' from p, greedy
SymbolsEnd(s, p) ==
    IF StartsWithAt(s, p, ", ") /\ IdentEnd(s, p + 2) > p + 2
    THEN SymbolsEnd(s, IdentEnd(s, p + 2))
    ELSE p

\* FROM_IMPORT_SYMBOLS_REGEX at p, given that a newline has to follow it:
\* the offset where it ends, or -1
FromImportSymbolsEnd(s, p) ==
    IF IdentEnd(s, p) > p THEN Before(s, SymbolsEnd(s, IdentEnd(s, p)), NL) ELSE -1

\* SixMoves.FROM_IMPORT_REGEX: '^from (MOVES) import (SYMBOLS)\n\n?'
\* ' import (SYMBOLS)\n\n?' at q, the offset after the module name
FromImportTail(s, q) ==
    IF q # -1 /\ StartsWithAt(s, q, " import ")
    THEN OneOrTwoNewlines(s, FromImportSymbolsEnd(s, q + 8))
    ELSE -1

SixMoves_FROM_IMPORT_REGEX(s, p) ==
    IF AtLineStart(s, p) /\ StartsWithAt(s, p, "from ")
    THEN FromImportTail(s, SixMovesEnd(s, p + 5))
    ELSE -1

\* SixMoves.replace_import: the line added and the name pair replaced for
\* the match s[p:e]
replace_import_line(s, p, e) ==
    "from six.moves import " \o SIX_MODULE_MOVES[Slice(s, p + 7, SixMovesEnd(s, p + 7))]
        \o Slice(s, SixMovesEnd(s, p + 7), AsNameEnd(s, SixMovesEnd(s, p + 7)))

replace_import_names(s, p, e) ==
    <<Slice(s, p + 7, SixMovesEnd(s, p + 7)),
      SIX_MODULE_MOVES[Slice(s, p + 7, SixMovesEnd(s, p + 7))]>>

\* SixMoves.replace_from: the line added for the match s[p:e]
replace_from_line(s, p, e) ==
    "from six.moves." \o SIX_MODULE_MOVES[Slice(s, p + 5, SixMovesEnd(s, p + 5))] \o " import "
        \o Slice(s, SixMovesEnd(s, p + 5) + 8,
                 FromImportSymbolsEnd(s, SixMovesEnd(s, p + 5) + 8))

\* the alternatives of '(NAMES)': with no name the alternation is empty,
\* and matches the empty string
Alternatives(names) == IF names = {} THEN {""} ELSE names

\* the name '(NAMES)\b( *\()' matches at p for a set of names, or "?" when
\* there is no match (no name of the table is a prefix of another)
BuiltinNameAt(names, s, p) ==
    IF \E n \in Alternatives(names) :
          /\ StartsWithAt(s, p, n)
          /\ WordBoundary(s, p + Len(n))
          /\ CharAt(s, SpacesEnd(s, p + Len(n))) = "("
    THEN CHOOSE n \in Alternatives(names) :
          /\ StartsWithAt(s, p, n)
          /\ WordBoundary(s, p + Len(n))
          /\ CharAt(s, SpacesEnd(s, p + Len(n))) = "("
    ELSE "?"

\* '(?<!\.)\b(NAMES)\b( *\()' for a set of names: SixMoves.BUILTIN_REGEX
\* for the names of SIX_BUILTIN_MOVES, builtin_regex2 for the names left in
\* six_builtin_moves.  With no name the alternation is empty and the
\* pattern is '(?<!\.)\b()\b( *\()'.
Builtin_REGEX(names, s, p) ==
    IF CharAt(s, p - 1) = "." \/ ~WordBoundary(s, p) \/ BuiltinNameAt(names, s, p) = "?" THEN -1
    ELSE SpacesEnd(s, p + Len(BuiltinNameAt(names, s, p))) + 1

\* SixMoves.replace_builtin for the names left in six_builtin_moves: the
\* text, and the line added
replace_builtin(names, s, p, e) ==
    SIX_BUILTIN_MOVES[BuiltinNameAt(names, s, p)]
        \o Slice(s, p + Len(BuiltinNameAt(names, s, p)), e)

replace_builtin_line(names, s, p, e) ==
    "from six.moves import " \o SIX_BUILTIN_MOVES[BuiltinNameAt(names, s, p)]

\* '\bOLD\b' for a name
Word_REGEX(old, s, p) ==
    IF WordBoundary(s, p) /\ StartsWithAt(s, p, old) /\ WordBoundary(s, p + Len(old))
    THEN p + Len(old)
    ELSE -1

\* SixMoves.MOCK_REGEX: '(patch\(['"])(MOVES)\.', and replace_mock
SixMoves_MOCK_REGEX(s, p) ==
    IF /\ StartsWithAt(s, p, "patch(")
       /\ CharAt(s, p + 6) \in {"'", "\""}
       /\ SixMovesEnd(s, p + 7) # -1
       /\ CharAt(s, SixMovesEnd(s, p + 7)) = "."
    THEN SixMovesEnd(s, p + 7) + 1
    ELSE -1

replace_mock(s, p, e) ==
    Slice(s, p, p + 7) \o "six.moves." \o SIX_MODULE_MOVES[Slice(s, p + 7, e - 1)] \o "."

(***************************************************************************)
(* Long, Next, Xrange: the patterns and the replacements.                  *)
(***************************************************************************)
\* Long.REGEX with the octal-looking literals matched too: '\b([0-9]+)L'
Long_REGEX_octal(s, p) ==
    IF ~WordBoundary(s, p) THEN -1
    ELSE IF CharAt(s, p) \in Digits /\ CharAt(s, RunEnd(s, p, Digits)) = "L"
    THEN RunEnd(s, p, Digits) + 1
    ELSE -1

\* Long.REGEX: '\b([1-9][0-9]*|0)L'
Long_REGEX(s, p) ==
    IF ~WordBoundary(s, p) THEN -1
    ELSE IF CharAt(s, p) \in (Digits \ {"0"}) /\ CharAt(s, RunEnd(s, p + 1, Digits)) = "L"
    THEN RunEnd(s, p + 1, Digits) + 1
    ELSE IF CharAt(s, p) = "0" /\ CharAt(s, p + 1) = "L" THEN p + 2
    ELSE -1

\* Long.replace: group(1)
Long_replace(s, p, e) == Slice(s, p, e - 1)

\* GETITEM_REGEX '\[[^]]+\]' or CALL_REGEX '\([^()]*\)' at p: the offset
\* after it, or -1
SuffixEnd(s, p) ==
    IF /\ CharAt(s, p) = "["
       /\ RunEndNot(s, p + 1, {"]"}) > p + 1
       /\ CharAt(s, RunEndNot(s, p + 1, {"]"})) = "]"
    THEN RunEndNot(s, p + 1, {"]"}) + 1
    ELSE IF CharAt(s, p) = "(" /\ CharAt(s, RunEndNot(s, p + 1, {"(", ")"})) = ")"
    THEN RunEndNot(s, p + 1, {"(", ")"}) + 1
    ELSE -1

RECURSIVE SuffixesEnds(_, _)
\* the offsets where '(?:SUFFIX)*' from e can end
SuffixesEnds(s, e) ==
    {e} \cup (IF SuffixEnd(s, e) = -1 THEN {} ELSE SuffixesEnds(s, SuffixEnd(s, e)))

\* the offsets where SUBEXPR_REGEX at p can end with an identifier taken
\* whole (a shorter identifier is followed by a word character, which
\* nothing after an expression matches)
SubexprEnds(s, p) == IF IdentEnd(s, p) > p THEN SuffixesEnds(s, IdentEnd(s, p)) ELSE {}

RECURSIVE ExprEnds(_, _)
\* the offsets where EXPR_REGEX at p can end
ExprEnds(s, p) ==
    UNION {{e} \cup (IF CharAt(s, e) = "." THEN ExprEnds(s, e + 1) ELSE {}) :
              e \in SubexprEnds(s, p)}

\* PARENT_REGEX '\([^()]*(?:\([^()]+\))?[^()]*\)' at p: the offset after
\* it, or -1
ParentEnd(s, p) ==
    LET q == RunEndNot(s, p + 1, {"(", ")"})
        r == RunEndNot(s, q + 1, {"(", ")"})
        t == RunEndNot(s, r + 1, {"(", ")"})
    IN  IF CharAt(s, p) # "(" THEN -1
        ELSE IF CharAt(s, q) = ")" THEN q + 1
        ELSE IF CharAt(s, q) = "(" /\ r > q + 1 /\ CharAt(s, r) = ")" /\ CharAt(s, t) = ")"
        THEN t + 1
        ELSE -1

\* the offset where group(1) of Next.REGEX at p ends, or -1: the longest
\* expression followed by '.next()' (greedy), else the parenthesis
NextExprEnd(s, p) ==
    LastOf({e \in ExprEnds(s, p) : StartsWithAt(s, e, ".next()")},
           Before(s, ParentEnd(s, p), ".next()"))

\* Next.REGEX: '(EXPR|PARENT)\.next\(\)'
Next_REGEX(s, p) == After(NextExprEnd(s, p), 7)

\* Next.replace
Next_replace(s, p, e) ==
    LET expr == Slice(s, p, e - 7)
    IN  "next("
        \o (IF StartsWithAt(expr, 0, "(") /\ EndsWith(expr, ")")
            THEN Slice(expr, 1, Len(expr) - 1) ELSE expr)
        \o ")"

\* the offset where group(3) of Raise.RAISE3_REGEX ends when group(2) ends
\* at e2, or -1: ', ' and the longest expression
Raise3_third(s, e2) ==
    IF StartsWithAt(s, e2, ", ") THEN LastOf(ExprEnds(s, e2 + 2), -1) ELSE -1

\* the offset where group(2) of Raise.RAISE3_REGEX ends when group(1) ends
\* at e1, or -1: ', ' and the longest expression the rest matches after
Raise3_second(s, e1) ==
    IF StartsWithAt(s, e1, ", ")
    THEN LastOf({e2 \in ExprEnds(s, e1 + 2) : Raise3_third(s, e2) # -1}, -1)
    ELSE -1

\* the offset where group(1) of Raise.RAISE3_REGEX at p ends, or -1
Raise3_first(s, p) ==
    IF StartsWithAt(s, p, "raise ")
    THEN LastOf({e1 \in ExprEnds(s, p + 6) : Raise3_second(s, e1) # -1}, -1)
    ELSE -1

\* Raise.RAISE3_REGEX: 'raise (EXPR), (EXPR), (EXPR)'
RAISE3_REGEX(s, p) ==
    IF Raise3_first(s, p) = -1 THEN -1
    ELSE Raise3_third(s, Raise3_second(s, Raise3_first(s, p)))

\* a quoted string "'[^']+'" at p, for the quote c: the offset after it, or -1
QuotedEnd(s, p, c) ==
    IF /\ CharAt(s, p) = c
       /\ RunEndNot(s, p + 1, {c}) > p + 1
       /\ CharAt(s, RunEndNot(s, p + 1, {c})) = c
    THEN RunEndNot(s, p + 1, {c}) + 1
    ELSE -1

\* the offset where group(2) of Raise.RAISE2_REGEX ends when group(1) ends
\* at e1, or -1: ', ' and an expression or a quoted string that ends the line
Raise2_second(s, e1) ==
    IF ~StartsWithAt(s, e1, ", ") THEN -1
    ELSE LastOf({e2 \in ExprEnds(s, e1 + 2) : AtLineEnd(s, e2)},
                IF QuotedEnd(s, e1 + 2, "'") # -1 /\ AtLineEnd(s, QuotedEnd(s, e1 + 2, "'"))
                THEN QuotedEnd(s, e1 + 2, "'")
                ELSE IF QuotedEnd(s, e1 + 2, "\"") # -1 /\ AtLineEnd(s, QuotedEnd(s, e1 + 2, "\""))
                THEN QuotedEnd(s, e1 + 2, "\"")
                ELSE -1)

\* the offset where group(1) of Raise.RAISE2_REGEX at p ends, or -1
Raise2_first(s, p) ==
    IF StartsWithAt(s, p, "raise ")
    THEN LastOf({e1 \in ExprEnds(s, p + 6) : Raise2_second(s, e1) # -1}, -1)
    ELSE -1

\* Raise.RAISE2_REGEX: 'raise (EXPR), (EXPR|'[^']+'|"[^"]+")$'
RAISE2_REGEX(s, p) ==
    IF Raise2_first(s, p) = -1 THEN -1 ELSE Raise2_second(s, Raise2_first(s, p))

\* Raise.raise2_replace
raise2_replace(s, p, e) ==
    "raise " \o Slice(s, p + 6, Raise2_first(s, p))
        \o "(" \o Slice(s, Raise2_first(s, p) + 2, e) \o ")"

\* Raise.raise3_replace with the three groups
raise3_replace_groups(exc_type, exc_value, exc_tb) ==
    IF EndsWith(exc_type, "[0]") /\ EndsWith(exc_value, "[1]") /\ EndsWith(exc_tb, "[2]")
    THEN "six.reraise(*" \o Slice(exc_type, 0, Len(exc_type) - 3) \o ")"
    ELSE "six.reraise(" \o exc_type \o ", " \o exc_value \o ", " \o exc_tb \o ")"

\* Raise.raise3_replace
raise3_replace(s, p, e) ==
    raise3_replace_groups(Slice(s, p + 6, Raise3_first(s, p)),
                          Slice(s, Raise3_first(s, p) + 2, Raise3_second(s, Raise3_first(s, p))),
                          Slice(s, Raise3_second(s, Raise3_first(s, p)) + 2, e))

\* the default of the max_range option
MAX_RANGE == 1024

RECURSIVE ParseInt(_)
\* int(s) for a string of decimal digits
ParseInt(s) ==
    IF s = "" THEN 0
    ELSE ParseInt(Slice(s, 0, Len(s) - 1)) * 10 + (Ord(CharAt(s, Len(s) - 1)) - Ord("0"))

RECURSIVE IntStr(_)
\* '%s' % n for an int n >= 0
IntStr(n) ==
    IF n < 10 THEN CharAt("0123456789", n)
    ELSE IntStr(n \div 10) \o CharAt("0123456789", n % 10)

\* '(?<!moves\.)' at p
NotAfterMoves(s, p) == ~(p >= 6 /\ Slice(s, p - 6, p) = "moves.")

\* '[0-9]+' at p with c after it: the offset of that c, or -1
NumberEnd(s, p, c) ==
    IF p # -1 /\ RunEnd(s, p, Digits) > p THEN Before(s, RunEnd(s, p, Digits), c) ELSE -1

\* Xrange.XRANGE1_REGEX: '(?<!moves\.)xrange\(([0-9]+)\)'
XRANGE1_REGEX(s, p) ==
    IF NotAfterMoves(s, p) /\ StartsWithAt(s, p, "xrange(")
    THEN After(NumberEnd(s, p + 7, ")"), 1)
    ELSE -1

\* Xrange.XRANGE2_REGEX: '(?<!moves\.)xrange\(([0-9]+), ([0-9]+)\)'
XRANGE2_REGEX(s, p) ==
    IF NotAfterMoves(s, p) /\ StartsWithAt(s, p, "xrange(")
    THEN After(NumberEnd(s, After(NumberEnd(s, p + 7, ", "), 2), ")"), 1)
    ELSE -1

\* Xrange.XRANGE_REGEX: '(?<!moves\.)xrange *\('
XRANGE_REGEX(s, p) ==
    IF /\ NotAfterMoves(s, p)
       /\ StartsWithAt(s, p, "xrange")
       /\ CharAt(s, SpacesEnd(s, p + 6)) = "("
    THEN SpacesEnd(s, p + 6) + 1
    ELSE -1

\* xrange1_replace: the text, and the end of the range
xrange1_end(s, p, e) == ParseInt(Slice(s, p + 7, e - 1))

xrange1_replace(s, p, e) == "range(" \o IntStr(xrange1_end(s, p, e)) \o ")"

\* xrange2_replace: the text, and the size of the range
xrange2_start(s, p, e) == ParseInt(Slice(s, p + 7, NumberEnd(s, p + 7, ", ")))

xrange2_end(s, p, e) == ParseInt(Slice(s, NumberEnd(s, p + 7, ", ") + 2, e - 1))

xrange2_replace(s, p, e) ==
    "range(" \o IntStr(xrange2_start(s, p, e)) \o ", " \o IntStr(xrange2_end(s, p, e)) \o ")"

(***************************************************************************)
(* re.sub and re.finditer.  A compiled pattern is the record of its name   *)
(* and of what it was built from; a replacement callback is named by the   *)
(* same kind of record.                                                    *)
(***************************************************************************)
(* Urllib: the table, the patterns and the replacements.                   *)
(***************************************************************************)
\* Urllib.SIX_MOVES_URLLIB
SIX_MOVES_URLLIB ==
    [error |-> {"HTTPError", "URLError"},
     request |-> {"HTTPBasicAuthHandler", "HTTPCookieProcessor",
                  "HTTPPasswordMgrWithDefaultRealm", "HTTPSHandler", "ProxyHandler",
                  "Request", "build_opener", "install_opener", "pathname2url", "urlopen"},
     parse |-> {"parse_qs", "parse_qsl", "quote", "quote_plus", "unquote", "urlencode",
                "urljoin", "urlparse", "urlsplit", "urlunparse", "urlunsplit"}]

\* Urllib.URLLIB[name]: the submodule of the symbol, "" for a KeyError
URLLIB(name) ==
    IF name \in SIX_MOVES_URLLIB.error THEN "error"
    ELSE IF name \in SIX_MOVES_URLLIB.request THEN "request"
    ELSE IF name \in SIX_MOVES_URLLIB.parse THEN "parse"
    ELSE ""

\* Urllib.URLLIB_UNCHANGED
URLLIB_UNCHANGED == {"urllib.error", "urllib.parse", "urllib.request"}

\* '(?:urllib2?|urlparse)' at p: the offset where it ends, or -1; what
\* follows the name in each pattern leaves no other way to match
Urllib_MODULE_end(s, p) ==
    IF p = -1 THEN -1
    ELSE IF StartsWithAt(s, p, "urllib2") THEN p + 7
    ELSE IF StartsWithAt(s, p, "urllib") THEN p + 6
    ELSE IF StartsWithAt(s, p, "urlparse") THEN p + 8
    ELSE -1

\* Urllib.IMPORT_URLLIB_REGEX: '^import \b(?:urllib2?|urlparse)\b\n\n?'
IMPORT_URLLIB_REGEX(s, p) ==
    IF AtLineStart(s, p) /\ StartsWithAt(s, p, "import ")
    THEN OneOrTwoNewlines(s, Urllib_MODULE_end(s, p + 7))
    ELSE -1

\* Urllib.FROM_IMPORT_REGEX: '^from (urllib2?|urlparse) import (SYMBOLS)\n\n?'
Urllib_FROM_IMPORT_REGEX(s, p) ==
    IF AtLineStart(s, p) /\ StartsWithAt(s, p, "from ")
    THEN FromImportTail(s, Urllib_MODULE_end(s, p + 5))
    ELSE -1

\* an identifier from q on: the offset where it ends, or -1
IdentFrom(s, q) == IF q # -1 /\ IdentEnd(s, q) > q THEN IdentEnd(s, q) ELSE -1

\* Urllib.URLLIB2_MOD_ATTR_REGEX: '\burllib2\.(?:urllib|urlparse)\.(IDENTIFIER)'
URLLIB2_MOD_ATTR_REGEX(s, p) ==
    IF ~(WordBoundary(s, p) /\ StartsWithAt(s, p, "urllib2.")) THEN -1
    ELSE IF StartsWithAt(s, p + 8, "urllib.") THEN IdentFrom(s, p + 15)
    ELSE IF StartsWithAt(s, p + 8, "urlparse.") THEN IdentFrom(s, p + 17)
    ELSE -1

\* Urllib.URLLIB_ATTR_REGEX: '\b(?:urllib2?|urlparse)\.(IDENTIFIER)'
URLLIB_ATTR_REGEX(s, p) ==
    IF WordBoundary(s, p)
    THEN IdentFrom(s, After(Before(s, Urllib_MODULE_end(s, p), "."), 1))
    ELSE -1

\* Urllib.URLLIB2_REGEX: '\burllib2\b(?!\.parse_http_list)'
URLLIB2_REGEX(s, p) ==
    IF /\ WordBoundary(s, p)
       /\ StartsWithAt(s, p, "urllib2")
       /\ WordBoundary(s, p + 7)
       /\ ~StartsWithAt(s, p + 7, ".parse_http_list")
    THEN p + 7
    ELSE -1

\* regs.group(1) of the two attribute patterns: what follows the last '.'
Urllib_name(text) ==
    SliceFrom(text, 1 + LastOf({i \in 0..(Len(text) - 1) : CharAt(text, i) = "."}, -1))

\* Urllib_replace_raises for a replace that guesses a submodule
Urllib_replace_raises_never(s, p, e) == FALSE

\* Urllib.replace raises 'unknown urllib symbol' for the match s[p:e]
Urllib_replace_raises(s, p, e) ==
    /\ Slice(s, p, e) \notin URLLIB_UNCHANGED
    /\ Urllib_name(Slice(s, p, e)) # "parse_http_list"
    /\ URLLIB(Urllib_name(Slice(s, p, e))) = ""

\* Urllib.replace, when it returns
Urllib_replace(s, p, e) ==
    IF Slice(s, p, e) \in URLLIB_UNCHANGED \/ Urllib_name(Slice(s, p, e)) = "parse_http_list"
    THEN Slice(s, p, e)
    ELSE "urllib." \o URLLIB(Urllib_name(Slice(s, p, e))) \o "." \o Urllib_name(Slice(s, p, e))

\* regs.group(2) of FROM_IMPORT_REGEX for the match at p
Urllib_symbols(s, p) ==
    Slice(s, Urllib_MODULE_end(s, p + 5) + 8, Find(s, NL, p))

\* 'for symbol in symbols.split(","): name = symbol.strip()'
Urllib_symbol_names(symbols) ==
    [i \in DOMAIN Split(symbols, ",") |-> Strip(Split(symbols, ",")[i])]

\* Urllib.replace_import_from raises 'unknown urllib symbol' for the match
\* at p
Urllib_replace_import_from_raises(s, p) ==
    /\ ~Contains(Urllib_symbols(s, p), "parse_http_list")
    /\ \E name \in Range(Urllib_symbol_names(Urllib_symbols(s, p))) : URLLIB(name) = ""

\* Urllib.replace_import_from, when it returns
Urllib_replace_import_from(s, p, e) ==
    IF Contains(Urllib_symbols(s, p), "parse_http_list") THEN Slice(s, p, e) ELSE ""

RECURSIVE NamesOf(_, _)
\* imports[submodule]: the names of the submodule, in order
NamesOf(names, submodule) ==
    IF names = <<>> THEN <<>>
    ELSE (IF URLLIB(Head(names)) = submodule THEN <<Head(names)>> ELSE <<>>)
         \o NamesOf(Tail(names), submodule)

RECURSIVE Join(_, _)
\* sep.join(names)
Join(names, sep) ==
    IF names = <<>> THEN ""
    ELSE IF Len(names) = 1 THEN names[1]
    ELSE names[1] \o sep \o Join(Tail(names), sep)

\* the lines Urllib.replace_import_from adds to add_imports for the names
Urllib_import_lines(names) ==
    {"from six.moves.urllib." \o submodule \o " import " \o Join(NamesOf(names, submodule), ", ") :
        submodule \in {sub \in {"error", "parse", "request"} : NamesOf(names, sub) # <<>>}}

(***************************************************************************)
Regex(name) == [re |-> name, arg |-> {}]

RegexOf(name, arg) == [re |-> name, arg |-> arg]

\* the offset where the match of the pattern at offset p of s ends, or -1
RegexMatch(regex, s, p) ==
    CASE regex.re = "SixMoves.IMPORT_REGEX" -> SixMoves_IMPORT_REGEX(s, p)
      [] regex.re = "SixMoves.FROM_IMPORT_REGEX" -> SixMoves_FROM_IMPORT_REGEX(s, p)
      [] regex.re = "SixMoves.BUILTIN_REGEX" -> Builtin_REGEX(regex.arg, s, p)
      [] regex.re = "SixMoves.MOCK_REGEX" -> SixMoves_MOCK_REGEX(s, p)
      [] regex.re = "word" -> Word_REGEX(regex.arg, s, p)
      [] regex.re = "Long.REGEX" -> Long_REGEX(s, p)
      [] regex.re = "Next.REGEX" -> Next_REGEX(s, p)
      [] regex.re = "Xrange.XRANGE1_REGEX" -> XRANGE1_REGEX(s, p)
      [] regex.re = "Xrange.XRANGE2_REGEX" -> XRANGE2_REGEX(s, p)
      [] regex.re = "Xrange.XRANGE_REGEX" -> XRANGE_REGEX(s, p)
      [] regex.re = "Urllib.IMPORT_URLLIB_REGEX" -> IMPORT_URLLIB_REGEX(s, p)
      [] regex.re = "Urllib.FROM_IMPORT_REGEX" -> Urllib_FROM_IMPORT_REGEX(s, p)
      [] regex.re = "Urllib.URLLIB2_MOD_ATTR_REGEX" -> URLLIB2_MOD_ATTR_REGEX(s, p)
      [] regex.re = "Urllib.URLLIB_ATTR_REGEX" -> URLLIB_ATTR_REGEX(s, p)
      [] regex.re = "Urllib.URLLIB2_REGEX" -> URLLIB2_REGEX(s, p)
      [] regex.re = "Raise.RAISE2_REGEX" -> RAISE2_REGEX(s, p)
      [] regex.re = "Raise.RAISE3_REGEX" -> RAISE3_REGEX(s, p)

\* what the replacement gives for the match s[p:e]
Replacement(repl, s, p, e) ==
    CASE repl.re = "SixMoves.replace_import" -> ""
      [] repl.re = "SixMoves.replace_from" -> ""
      [] repl.re = "SixMoves.replace_builtin" -> replace_builtin(repl.arg, s, p, e)
      [] repl.re = "SixMoves.replace_mock" -> replace_mock(s, p, e)
      [] repl.re = "str" -> repl.arg
      [] repl.re = "Long.replace" -> Long_replace(s, p, e)
      [] repl.re = "Next.replace" -> Next_replace(s, p, e)
      [] repl.re = "xrange1_replace" -> xrange1_replace(s, p, e)
      [] repl.re = "xrange2_replace" -> xrange2_replace(s, p, e)
      [] repl.re = "Urllib.replace" -> Urllib_replace(s, p, e)
      [] repl.re = "Urllib.replace_import_from" -> Urllib_replace_import_from(s, p, e)
      [] repl.re = "raise2_replace" -> raise2_replace(s, p, e)
      [] repl.re = "raise3_replace" -> raise3_replace(s, p, e)

\* for every offset of s, where the match of the pattern at that offset
\* ends, or -1
MatchEnds(regex, s) == [q \in 0..Len(s) |-> RegexMatch(regex, s, q)]

RECURSIVE MatchesFrom(_, _, _)
RECURSIVE MatchesAt(_, _, _)
\* the leftmost non-overlapping matches <<start, end>> from offset p on, in
\* order, given where the match at each offset of 0..n ends
MatchesFrom(ends, n, p) == MatchesAt(ends, n, FirstOf({q \in p..n : ends[q] # -1}))

\* the match at q and those after it: the search goes on from its end, or
\* from q + 1 after an empty match
MatchesAt(ends, n, q) ==
    IF q = -1 THEN <<>>
    ELSE <<(<<q, ends[q]>>)>> \o MatchesFrom(ends, n, IF ends[q] > q THEN ends[q] ELSE q + 1)

\* regex.finditer(s): the matches <<start, end>> in order
ReFindIter(regex, s) == MatchesFrom(MatchEnds(regex, s), Len(s), 0)

RECURSIVE ReSubMatches(_, _, _, _)
\* s[p:] with the matches ms (in order, from p on) replaced
ReSubMatches(repl, s, ms, p) ==
    IF ms = <<>> THEN SliceFrom(s, p)
    ELSE Slice(s, p, Head(ms)[1]) \o Replacement(repl, s, Head(ms)[1], Head(ms)[2])
            \o ReSubMatches(repl, s, Tail(ms), Head(ms)[2])

\* regex.sub(repl, s): the leftmost non-overlapping matches replaced
ReSub(regex, repl, s) == ReSubMatches(repl, s, ReFindIter(regex, s), 0)

(***************************************************************************)
(* The patch of SixMoves, Long, Next, Xrange.  A patch gives               *)
(* [ok |-> TRUE, text |-> ...], or ok FALSE with the error when it raises. *)
(***************************************************************************)
\* the names BUILTIN_REGEX.finditer meets in content
BuiltinsFound(content) ==
    {BuiltinNameAt(DOMAIN SIX_BUILTIN_MOVES, content, m[1]) :
        m \in Range(ReFindIter(RegexOf("SixMoves.BUILTIN_REGEX", DOMAIN SIX_BUILTIN_MOVES),
                               content))}

\* the names replace_builtins keeps in six_builtin_moves: those met in
\* content whose six.moves import is not in content yet, and those not met
BuiltinsLeft(content, found) ==
    {n \in DOMAIN SIX_BUILTIN_MOVES :
        ~(n \in found /\ Contains(content, "from six.moves import " \o SIX_BUILTIN_MOVES[n] \o NL))}

\* 'builtin_regex2.sub(replace_cb, content)' for the matches of
\* builtin_regex2: the new text and the lines added; with an empty
\* six_builtin_moves, replace_builtin raises KeyError at a match
replace_builtins_sub(content, left, matches) ==
    IF left = {}
    THEN [ok |-> matches = <<>>, text |-> content, lines |-> {}]
    ELSE [ok |-> TRUE,
          text |-> ReSubMatches(RegexOf("SixMoves.replace_builtin", left), content, matches, 0),
          lines |-> {replace_builtin_line(left, content, m[1], m[2]) : m \in Range(matches)}]

\* replace_builtins once six_builtin_moves is what the loop left
replace_builtins_left(content, left) ==
    replace_builtins_sub(content, left,
                         ReFindIter(RegexOf("SixMoves.BUILTIN_REGEX", left), content))

\* SixMoves.replace_builtins
replace_builtins(content) ==
    replace_builtins_left(content, BuiltinsLeft(content, BuiltinsFound(content)))

RECURSIVE ReplaceNames(_, _)
\* 'for old_name, new_name in replace_names: content = re.sub(r"\bold\b",
\* new_name, content)'.  No new name is the old name of another pair, so
\* the result does not depend on the order the set is iterated in.
ReplaceNames(content, pairs) ==
    IF pairs = <<>> THEN content
    ELSE ReplaceNames(ReSub(RegexOf("word", Head(pairs)[1]), RegexOf("str", Head(pairs)[2]),
                            content),
                      Tail(pairs))

\* a set of pairs of str, in the order olds gives to their first names
PairsInOrder(S, olds) == [i \in DOMAIN olds |-> CHOOSE pr \in S : pr[1] = olds[i]]

\* a set of pairs of str as a sequence
PairsSeq(S) == PairsInOrder(S, Sorted({pr[1] : pr \in S}))

RECURSIVE AddImportNamesAll(_, _)
\* 'for line in sorted(add_imports): content = add_import_names(content,
\* line, parse_import(line))': the last result, or the first error
AddImportNamesAll(r, lines) ==
    IF lines = <<>> \/ ~r.ok THEN r
    ELSE AddImportNamesAll(add_import_names(r.text, Head(lines), parse_import(Head(lines)).names),
                           Tail(lines))

\* the end of SixMoves.patch: MOCK_REGEX.sub on what the import requests
\* gave, unless one raised
SixMoves_patch_mock(r) ==
    IF ~r.ok THEN r
    ELSE [ok |-> TRUE, kind |-> r.kind, pos |-> r.pos,
          text |-> ReSub(Regex("SixMoves.MOCK_REGEX"), Regex("SixMoves.replace_mock"), r.text)]

\* SixMoves.patch from what replace_builtins gave: the names replaced, the
\* imports requested
SixMoves_patch_names(replace_names, add_imports, builtins) ==
    IF ~builtins.ok THEN [ok |-> FALSE, error |-> "KeyError", groups |-> <<>>]
    ELSE SixMoves_patch_mock(
             AddImportNamesAll(Patched(ReplaceNames(builtins.text, PairsSeq(replace_names))),
                               Sorted(add_imports \cup builtins.lines)))

\* SixMoves.patch from the matches of FROM_IMPORT_REGEX
SixMoves_patch_from(content, replace_names, add_imports, matches) ==
    SixMoves_patch_names(
        replace_names,
        add_imports \cup {replace_from_line(content, m[1], m[2]) : m \in Range(matches)},
        replace_builtins(ReSubMatches(Regex("SixMoves.replace_from"), content, matches, 0)))

\* SixMoves.patch after IMPORT_REGEX.sub
SixMoves_patch_imported(content, replace_names, add_imports) ==
    SixMoves_patch_from(content, replace_names, add_imports,
                        ReFindIter(Regex("SixMoves.FROM_IMPORT_REGEX"), content))

\* SixMoves.patch from the matches of IMPORT_REGEX
SixMoves_patch_import(content, matches) ==
    SixMoves_patch_imported(
        ReSubMatches(Regex("SixMoves.replace_import"), content, matches, 0),
        {replace_import_names(content, m[1], m[2]) : m \in Range(matches)},
        {replace_import_line(content, m[1], m[2]) : m \in Range(matches)})

\* SixMoves.patch
SixMoves_patch(content) ==
    SixMoves_patch_import(content, ReFindIter(Regex("SixMoves.IMPORT_REGEX"), content))

Long_patch(content) == Patched(ReSub(Regex("Long.REGEX"), Regex("Long.replace"), content))

Next_patch(content) == Patched(ReSub(Regex("Next.REGEX"), Regex("Next.replace"), content))

\* a range of xrange1_replace is larger than max_range
xrange1_need_six(s, matches, max_range) ==
    \E m \in Range(matches) : xrange1_end(s, m[1], m[2]) > max_range

\* xrange2_need_six with the end of the range compared to max_range
xrange2_need_six_end(s, matches, max_range) ==
    \E m \in Range(matches) : xrange2_end(s, m[1], m[2]) > max_range

\* a range of xrange2_replace is larger than max_range
xrange2_need_six(s, matches, max_range) ==
    \E m \in Range(matches) : xrange2_end(s, m[1], m[2]) - xrange2_start(s, m[1], m[2]) > max_range

\* the end of Xrange.patch, for the text before and after XRANGE_REGEX.sub:
\* the text and need_six
Xrange_rewrite_any(new_content, new_content2, need_six) ==
    [text |-> new_content2, need_six |-> need_six \/ new_content2 # new_content]

\* Xrange.patch after XRANGE2_REGEX.sub
Xrange_rewrite_ranges(new_content, need_six) ==
    Xrange_rewrite_any(new_content,
                       ReSub(Regex("Xrange.XRANGE_REGEX"), RegexOf("str", "range("), new_content),
                       need_six)

\* Xrange.patch from the matches of XRANGE2_REGEX
Xrange_rewrite_range2(new_content, max_range, need_six, matches) ==
    Xrange_rewrite_ranges(ReSubMatches(Regex("xrange2_replace"), new_content, matches, 0),
                          need_six \/ xrange2_need_six(new_content, matches, max_range))

\* Xrange.patch after XRANGE1_REGEX.sub
Xrange_rewrite_ranged(new_content, max_range, need_six) ==
    Xrange_rewrite_range2(new_content, max_range, need_six,
                          ReFindIter(Regex("Xrange.XRANGE2_REGEX"), new_content))

\* Xrange.patch from the matches of XRANGE1_REGEX
Xrange_rewrite_range1(content, max_range, matches) ==
    Xrange_rewrite_ranged(ReSubMatches(Regex("xrange1_replace"), content, matches, 0),
                          max_range, xrange1_need_six(content, matches, max_range))

\* Xrange.patch up to the import request: the text and need_six
Xrange_rewrite(content, max_range) ==
    Xrange_rewrite_range1(content, max_range, ReFindIter(Regex("Xrange.XRANGE1_REGEX"), content))

\* 'if need_six: new_content = self.patcher.add_import(...)'
Xrange_import(rewritten) ==
    IF rewritten.need_six
    THEN add_import(rewritten.text, "from six.moves import range")
    ELSE Patched(rewritten.text)

\* Xrange.patch
Xrange_patch(content, max_range) == Xrange_import(Xrange_rewrite(content, max_range))

\* what Urllib.patch gives when replace or replace_import_from raises
UnknownSymbol == [ok |-> FALSE, error |-> "urllib", groups |-> <<>>]

\* Urllib.patch_import from the matches of URLLIB_ATTR_REGEX: URLLIB2_REGEX.sub
\* and the import request
Urllib_patch_attr_matches(content, matches) ==
    IF \E m \in Range(matches) : Urllib_replace_raises(content, m[1], m[2])
    THEN UnknownSymbol
    ELSE add_import(ReSub(Regex("Urllib.URLLIB2_REGEX"), RegexOf("str", "urllib"),
                          ReSubMatches(Regex("Urllib.replace"), content, matches, 0)),
                    "from six.moves import urllib")

\* Urllib.patch_import after URLLIB2_MOD_ATTR_REGEX.sub
Urllib_patch_attr(content) ==
    Urllib_patch_attr_matches(content, ReFindIter(Regex("Urllib.URLLIB_ATTR_REGEX"), content))

\* Urllib.patch_import from the matches of URLLIB2_MOD_ATTR_REGEX
Urllib_patch_mod_attr_matches(content, matches) ==
    IF \E m \in Range(matches) : Urllib_replace_raises(content, m[1], m[2])
    THEN UnknownSymbol
    ELSE Urllib_patch_attr(ReSubMatches(Regex("Urllib.replace"), content, matches, 0))

\* Urllib.patch_import after IMPORT_URLLIB_REGEX.sub changed the text
Urllib_patch_mod_attr(content) ==
    Urllib_patch_mod_attr_matches(content,
                                  ReFindIter(Regex("Urllib.URLLIB2_MOD_ATTR_REGEX"), content))

\* Urllib.patch_import from the matches of IMPORT_URLLIB_REGEX
Urllib_patch_import_matches(content, matches) ==
    IF matches = <<>> THEN Patched(content)
    ELSE Urllib_patch_mod_attr(ReSubMatches(RegexOf("str", ""), content, matches, 0))

\* Urllib.patch_import
Urllib_patch_import(content) ==
    Urllib_patch_import_matches(content,
                                ReFindIter(Regex("Urllib.IMPORT_URLLIB_REGEX"), content))

RECURSIVE AddImportAll(_, _)
\* 'for line in sorted(add_imports): content = self.patcher.add_import(
\* content, line)': the last result, or the first error
AddImportAll(r, lines) ==
    IF lines = <<>> \/ ~r.ok THEN r
    ELSE AddImportAll(add_import(r.text, Head(lines)), Tail(lines))

\* Urllib.patch_from_import and the import requests, from the matches of
\* FROM_IMPORT_REGEX in the text patch_import returned
Urllib_patch_from_matches(r, matches) ==
    IF \E m \in Range(matches) : Urllib_replace_import_from_raises(r.text, m[1])
    THEN UnknownSymbol
    ELSE AddImportAll(
            [r EXCEPT !.text =
                ReSubMatches(Regex("Urllib.replace_import_from"), r.text, matches, 0)],
            Sorted(UNION {Urllib_import_lines(Urllib_symbol_names(Urllib_symbols(r.text, m[1]))) :
                            m \in {n \in Range(matches) :
                                      ~Contains(Urllib_symbols(r.text, n[1]), "parse_http_list")}}))

\* Urllib.patch after patch_import
Urllib_patch_from_import(r) ==
    IF ~r.ok THEN r
    ELSE Urllib_patch_from_matches(r, ReFindIter(Regex("Urllib.FROM_IMPORT_REGEX"), r.text))

\* Urllib.patch
Urllib_patch(content) == Urllib_patch_from_import(Urllib_patch_import(content))

\* Raise.patch after RAISE3_REGEX.sub: 'if new_content != content'
Raise_patch_import(content, new_content) ==
    IF new_content # content THEN add_import_six(new_content) ELSE Patched(content)

\* Raise.patch after RAISE2_REGEX.sub
Raise_patch_raise3(content) ==
    Raise_patch_import(content,
                       ReSub(Regex("Raise.RAISE3_REGEX"), Regex("raise3_replace"), content))

\* Raise.patch
Raise_patch(content) ==
    Raise_patch_raise3(ReSub(Regex("Raise.RAISE2_REGEX"), Regex("raise2_replace"), content))

(***************************************************************************)
(* The check steps: an operation's check gives the warnings it emits, in   *)
(* order.                                                                  *)
(***************************************************************************)
\* content.splitlines(), for the line ends of the model
SplitLines(content) ==
    IF content = "" THEN <<>>
    ELSE IF EndsWith(content, NL) THEN Split(Slice(content, 0, Len(content) - 1), NL)
    ELSE Split(content, NL)

\* Long.CHECK_REGEX, '^.*\b[0-9]+L.*$': the pattern matches the line
Long_CHECK_REGEX(line) ==
    \E p \in 0..(Len(line) - 1) :
        /\ WordBoundary(line, p)
        /\ CharAt(line, p) \in Digits
        /\ CharAt(line, RunEnd(line, p, Digits)) = "L"

\* Next.CHECK_REGEX, '^.*\.next *\(.*$'
Next_CHECK_REGEX(line) ==
    \E p \in 0..(Len(line) - 1) :
        StartsWithAt(line, p, ".next") /\ CharAt(line, SpacesEnd(line, p + 5)) = "("

\* Next.DEF_NEXT_LINE_REGEX, '^.*def next *\(.*$'
Next_DEF_NEXT_LINE_REGEX(line) ==
    \E p \in 0..(Len(line) - 1) :
        StartsWithAt(line, p, "def next") /\ CharAt(line, SpacesEnd(line, p + 8)) = "("

\* the pattern of that name is found in the line
LineMatches(regex, line) ==
    CASE regex = "Long.CHECK_REGEX" -> Long_CHECK_REGEX(line)
      [] regex = "Next.CHECK_REGEX" -> Next_CHECK_REGEX(line)
      [] regex = "Next.DEF_NEXT_LINE_REGEX" -> Next_DEF_NEXT_LINE_REGEX(line)
      [] regex = "Xrange.XRANGE_REGEX" -> \E p \in 0..(Len(line) - 1) : XRANGE_REGEX(line, p) # -1
      [] regex = "Raise.RAISE_LINE_REGEX" ->
            \E p \in 0..(Len(line) - 1) :
                /\ StartsWithAt(line, p, "raise ")
                /\ \E e \in ExprEnds(line, p + 6) : CharAt(line, e) = ","
      [] regex = "Urllib.check" ->
            \/ Contains(line, "urllib2.parse_http_list")
            \/ StartsWithAt(line, 0, "from ")
                  /\ Before(line, Urllib_MODULE_end(line, 5), " import") # -1

\* Operation.warn_line: the message given to Patcher.warning
warn_line(name, filename, line) == "[" \o name \o "] " \o filename \o ": " \o Strip(line)

RECURSIVE WarnLines(_, _, _, _)
\* warn_line for each of the lines the pattern matches
WarnLines(regex, name, filename, lines) ==
    IF lines = <<>> THEN <<>>
    ELSE (IF LineMatches(regex, Head(lines))
          THEN <<warn_line(name, filename, Head(lines))>> ELSE <<>>)
         \o WarnLines(regex, name, filename, Tail(lines))

\* operation.check(content) for the operation of that name: the pattern of
\* a 'finditer' check matches whole lines, one match for a line
Operation_check(name, content0, filename) ==
    CASE name = "long" -> WarnLines("Long.CHECK_REGEX", name, filename, Split(content0, NL))
      [] name = "next" ->
            WarnLines("Next.CHECK_REGEX", name, filename, Split(content0, NL))
            \o WarnLines("Next.DEF_NEXT_LINE_REGEX", name, filename, Split(content0, NL))
      [] name = "xrange" ->
            WarnLines("Xrange.XRANGE_REGEX", name, filename, SplitLines(content0))
      [] name = "six_moves" -> <<>>
      [] name = "urllib" -> WarnLines("Urllib.check", name, filename, SplitLines(content0))
      [] name = "raise" ->
            WarnLines("Raise.RAISE_LINE_REGEX", name, filename, Split(content0, NL))

RECURSIVE Patcher_check(_, _, _)
\* Patcher.check: the warnings of the checks of ops, in order
Patcher_check(ops, content0, filename) ==
    IF ops = <<>> THEN <<>>
    ELSE Operation_check(Head(ops), content0, filename)
         \o Patcher_check(Tail(ops), content0, filename)

(***************************************************************************)
(* The state.                                                              *)
(***************************************************************************)
VARIABLES
    options,    \* the options namespace the Patcher is given
    via,        \* "main" when main() builds the Patcher, "api" when a caller does
    pc,         \* where the program is: "start", "parsed", "ready" (a
                \* Patcher exists), "loop" (in patch), "failed" (patch raised),
                \* "unchanged" (patch returned False), "written" (patch
                \* returned True), "exit" (the process has ended)
    selection,  \* the operation names the Patcher is given
    operations, \* self.operations: the active operations, in order
    file,       \* the text of the file on disk
    orig,       \* the text of the file when the current patch call read it
    content,    \* the current text
    pre,        \* the text the last request or operation was given
    req,        \* the last request or operation: [op, line]
    res,        \* what it returned or raised
    nreq,       \* the number of import requests made
    idx,        \* the index in self.operations of the next operation
    modified,   \* the names of the operations that changed the content
    writes,     \* the number of times the current patch call wrote the file
    run,        \* the number of the current run
    mode,       \* "first"; "again" for a run on the file as the last run
                \* left it; "replay" for a run on the last run's input
    last,       \* how the last run ended: [output, modified, pc]
    current_file, \* the file name patch is called with
    checks,     \* the check steps of the current patch call: [op, content]
    warnings,   \* self.warnings: the messages given to Patcher.warning
    disk,       \* the files of the paths the program is run on: name -> text
    argv,       \* the path arguments of the command line
    paths,      \* the path arguments Patcher.walk has not gone through yet
    exitcode,   \* the exit status of the process, -1 while it runs
    log,        \* the files opened so far: <<"read" or "write", name, text>>
    loop_pos,   \* 'pos' of the loop add_import_names is in, when its loops
                \* are gone through an iteration at a time
    loop_groups \* 'import_groups' of parse_import_groups, up to that iteration

vars ==
    <<APPLICATION_MODULES, options, via, pc, selection, operations, file, orig,
      content, pre, req, res, nreq, idx, modified, writes, run, mode, last,
      current_file, checks, warnings, disk, argv, paths, exitcode, log,
      loop_pos, loop_groups>>

loopVars == <<loop_pos, loop_groups>>

patcherVars == <<APPLICATION_MODULES, options, via, pc, selection, operations>>

patcherVars_but_pc == <<APPLICATION_MODULES, options, via, selection, operations>>

checkVars == <<checks, warnings>>

mainVars == <<current_file, disk, argv, paths, exitcode>>

patchVars ==
    <<file, orig, idx, modified, writes, run, mode, last, checkVars, mainVars, log>>

\* the namespace Patcher.__init__ builds when it is given no options
DefaultOptions ==
    [app |-> "", third_party |-> "", max_range |-> MAX_RANGE,
     to_stdout |-> FALSE, quiet |-> FALSE]

NoRequest == [op |-> "none", line |-> ""]

NoRun == [output |-> "", modified |-> {}, pc |-> "none"]

\* add_import_names is in none of its loops
NoLoop ==
    /\ loop_pos = 0
    /\ loop_groups = <<>>

\* no patch call has been made
NoPatch ==
    /\ file = ""
    /\ orig = ""
    /\ idx = 0
    /\ modified = {}
    /\ writes = 0
    /\ run = 0
    /\ mode = "first"
    /\ last = NoRun
    /\ current_file = ""
    /\ checks = <<>>
    /\ warnings = <<>>
    /\ exitcode = -1
    /\ log = <<>>

(***************************************************************************)
(* Import requests applied in succession to one content, by a Patcher      *)
(* built with the default options.                                         *)
(***************************************************************************)
\* the import groups initial contents are made of: __future__, stdlib,
\* third-party, application, unclassified
GroupTexts ==
    <<"from __future__ import division\n",
      "import copy\n",
      "import oslo_utils\n",
      "import nova\n",
      "import Queue\n">>

\* what follows the import groups: nothing, or code after a blank line and
\* an import after the code
Tails == {"", "\ncode\nimport glance\n"}

RECURSIVE JoinGroups(_, _)
\* the groups ks of texts, one blank line between two groups
JoinGroups(texts, ks) ==
    IF Len(ks) = 0 THEN ""
    ELSE IF Len(ks) = 1 THEN texts[ks[1]]
    ELSE texts[ks[1]] \o NL \o JoinGroups(texts, Tail(ks))

\* sequences of at most MaxGroups distinct indexes of texts
GroupSeqs(texts) ==
    {ks \in UNION {[1..n -> DOMAIN texts] : n \in 0..MaxGroups} :
        \A i, j \in DOMAIN ks : i # j => ks[i] # ks[j]}

\* a __future__ import is at the top of the file, as Python requires
FutureAtTop(ks) == \A i \in DOMAIN ks : ks[i] = 1 => i = 1

InitialContents ==
    {JoinGroups(GroupTexts, ks) \o t :
        ks \in {k \in GroupSeqs(GroupTexts) : FutureAtTop(k)}, t \in Tails}

\* the lines add_import is asked for ('import six' itself is asked for
\* through add_import_six)
RequestLines ==
    {"import six ", "from six.moves import queue", "from __future__ import print_function"}

InitImport ==
    /\ APPLICATION_MODULES = APPLICATION_MODULES_DEFAULT
    /\ options = DefaultOptions
    /\ via = "api"
    /\ pc = "ready"
    /\ selection = {}
    /\ operations = <<>>
    /\ content \in InitialContents
    /\ pre = content
    /\ req = NoRequest
    /\ res = Present(content)
    /\ nreq = 0
    /\ NoLoop
    /\ NoPatch
    /\ disk = <<>>
    /\ argv = <<>>
    /\ paths = <<>>

\* one request to the Patcher: the caller keeps its text when the request
\* raises
Request(r, result) ==
    /\ pc = "ready"
    /\ nreq < MaxRequests
    /\ res.ok
    /\ pre' = content
    /\ req' = r
    /\ res' = result
    /\ content' = IF result.ok THEN result.text ELSE content
    /\ nreq' = nreq + 1
    /\ UNCHANGED <<loopVars, patcherVars, patchVars>>

AddImport(line) == Request([op |-> "add_import", line |-> line], add_import(content, line))

AddImportSix == Request([op |-> "add_import_six", line |-> "import six"], add_import_six(content))

\* the SixMoves operation applied to the text: its import requests go to
\* add_import_names directly
SixMoves == Request([op |-> "six_moves", line |-> ""], SixMoves_patch(content))

NextImport ==
    \/ \E line \in RequestLines : AddImport(line)
    \/ AddImportSix
    \/ SixMoves

Spec == InitImport /\ [][NextImport]_vars

(***************************************************************************)
(* Patcher.__init__ and parse_options.                                     *)
(***************************************************************************)
\* the operations of OPERATIONS that are modelled
OPERATION_NAMES == {"long", "next", "six_moves", "xrange"}

\* 'operations = set(operations)', with "all" replaced by every name
ActiveNames(names) ==
    IF "all" \in names THEN (names \cup OPERATION_NAMES) \ {"all"} ELSE names

\* the orders a set can be iterated in: the order of a set of str is not
\* defined (it depends on the hash seed of the process)
Orders(S) ==
    {o \in [1..Cardinality(S) -> S] : \A i, j \in DOMAIN o : i # j => o[i] # o[j]}

\* parse_options when it exits: less than two arguments, or an operation
\* that is not in OPERATION_NAMES
parse_options_exit ==
    /\ via = "main"
    /\ pc = "start"
    /\ argv = <<>> \/ ~(selection \subseteq OPERATION_NAMES \cup {"all"})
    /\ pc' = "exit"
    /\ exitcode' = 1
    /\ UNCHANGED <<loopVars, APPLICATION_MODULES, options, via, selection, operations, content, pre,
                   req, res, nreq, file, orig, idx, modified, writes, run, mode, last,
                   checkVars, current_file, disk, argv, paths, log>>

\* parse_options, as main() calls it: --app is added to APPLICATION_MODULES
parse_options ==
    /\ via = "main"
    /\ pc = "start"
    /\ argv # <<>>
    /\ selection \subseteq OPERATION_NAMES \cup {"all"}
    /\ APPLICATION_MODULES' =
          IF options.app # "" THEN APPLICATION_MODULES \cup {options.app}
          ELSE APPLICATION_MODULES
    /\ pc' = "parsed"
    /\ UNCHANGED <<loopVars, options, via, selection, operations, content, pre, req, res, nreq, patchVars>>

\* Patcher(operations, options)
Patcher_init ==
    /\ pc = IF via = "main" THEN "parsed" ELSE "start"
    /\ operations' \in Orders(ActiveNames(selection))
    /\ pc' = "ready"
    /\ UNCHANGED <<loopVars, APPLICATION_MODULES, options, via, selection, content, pre, req, res, nreq,
                   patchVars>>

(***************************************************************************)
(* Import requests to a Patcher that is given options.                     *)
(***************************************************************************)
\* stdlib, and two modules no table knows
OptionGroupTexts == <<"import copy\n", "import app\n", "import numpypy\n">>

OptionContents ==
    {JoinGroups(OptionGroupTexts, ks) \o t : ks \in GroupSeqs(OptionGroupTexts), t \in Tails}

\* the options a caller gives: main() has no option for third-party names
OptionChoices ==
    {[DefaultOptions EXCEPT !.app = a, !.third_party = t] :
        a \in {"", "app"}, t \in {"", "xyz,numpypy"}}

InitOptions ==
    /\ APPLICATION_MODULES = APPLICATION_MODULES_DEFAULT
    /\ via \in {"api", "main"}
    /\ options \in OptionChoices
    /\ via = "main" => options.third_party = ""
    /\ pc = "start"
    /\ selection = {"xrange"}
    /\ operations = <<>>
    /\ content \in OptionContents
    /\ pre = content
    /\ req = NoRequest
    /\ res = Present(content)
    /\ nreq = 0
    /\ NoLoop
    /\ NoPatch
    /\ disk = <<>>
    /\ argv = <<"file.py">>
    /\ paths = argv

NextOptions ==
    \/ parse_options
    \/ Patcher_init
    \/ \E line \in RequestLines : AddImport(line)
    \/ AddImportSix

SpecOptions == InitOptions /\ [][NextOptions]_vars

(***************************************************************************)
(* Patcher.patch on one file, and runs of the program in succession.       *)
(***************************************************************************)
\* runs of the program on one file
MaxRuns == 2

\* operation.patch(content) for the operation of that name
Operation_patch(name, content0, opts) ==
    CASE name = "long" -> Long_patch(content0)
      [] name = "next" -> Next_patch(content0)
      [] name = "xrange" -> Xrange_patch(content0, opts.max_range)
      [] name = "six_moves" -> SixMoves_patch(content0)
      [] name = "urllib" -> Urllib_patch(content0)
      [] name = "raise" -> Raise_patch(content0)

\* the imports a file starts with: none, a stdlib group, a group no table
\* knows
FileHeads == {"", "import copy\n\n", "import Queue\n\n"}

FileBodies ==
    {"x = 1\n", "xrange(10L)\n", "it.next().next()\n", "xrange(n, 1L)\n", "xrange(0, 2000)\n"}

Files == {h \o b : h \in FileHeads, b \in FileBodies}

Selections ==
    {{"long"}, {"xrange"}, {"next"}, {"six_moves"}, {"long", "xrange"},
     {"xrange", "six_moves"}, {"all"}}

\* the options a caller gives: the file is rewritten, or the text is
\* written to stdout (parse_options sets quiet with to_stdout)
PatchOptions ==
    {DefaultOptions, [DefaultOptions EXCEPT !.to_stdout = TRUE, !.quiet = TRUE]}

InitPatch ==
    /\ APPLICATION_MODULES = APPLICATION_MODULES_DEFAULT
    /\ options \in PatchOptions
    /\ via = "api"
    /\ pc = "start"
    /\ selection \in Selections
    /\ operations = <<>>
    /\ file \in Files
    /\ orig = file
    /\ content = ""
    /\ pre = ""
    /\ req = NoRequest
    /\ res = Present("")
    /\ nreq = 0
    /\ NoLoop
    /\ idx = 0
    /\ modified = {}
    /\ writes = 0
    /\ run = 1
    /\ mode = "first"
    /\ last = NoRun
    /\ current_file = "file.py"
    /\ checks = <<>>
    /\ warnings = <<>>
    /\ disk = <<>>
    /\ argv = <<>>
    /\ paths = <<>>
    /\ exitcode = -1
    /\ log = <<>>

\* Patcher.patch: the file is read
patch_read ==
    /\ pc = "ready"
    /\ current_file # ""
    /\ log' = Append(log, <<"read", current_file, file>>)
    /\ checks' = <<>>
    /\ content' = file
    /\ orig' = file
    /\ pre' = file
    /\ req' = NoRequest
    /\ res' = Present(file)
    /\ idx' = 1
    /\ modified' = {}
    /\ writes' = 0
    /\ pc' = "loop"
    /\ UNCHANGED <<loopVars, APPLICATION_MODULES, options, via, selection, operations, file, nreq, run,
                   mode, last, warnings, mainVars>>

\* patch_operation with the name added to modified whatever is returned
patch_operation_always ==
    /\ pc = "loop"
    /\ idx <= Len(operations)
    /\ \E new_content \in {Operation_patch(operations[idx], content, options)} :
           /\ new_content.ok
           /\ pre' = content
           /\ req' = [op |-> operations[idx], line |-> ""]
           /\ res' = new_content
           /\ content' = new_content.text
           /\ modified' = modified \cup {operations[idx]}
    /\ idx' = idx + 1
    /\ UNCHANGED <<loopVars, patcherVars, file, orig, nreq, writes, run, mode, last, checkVars,
                   mainVars, log>>

\* one iteration of 'for operation in self.operations' that returns
patch_operation ==
    /\ pc = "loop"
    /\ idx <= Len(operations)
    /\ \E new_content \in {Operation_patch(operations[idx], content, options)} :
           /\ new_content.ok
           /\ pre' = content
           /\ req' = [op |-> operations[idx], line |-> ""]
           /\ res' = new_content
           /\ content' = new_content.text
           /\ modified' = IF new_content.text = content THEN modified
                          ELSE modified \cup {operations[idx]}
    /\ idx' = idx + 1
    /\ UNCHANGED <<loopVars, patcherVars, file, orig, nreq, writes, run, mode, last, checkVars,
                   mainVars, log>>

\* patch_raise with the text reached so far written to the file
patch_raise_flush ==
    /\ pc = "loop"
    /\ idx <= Len(operations)
    /\ \E new_content \in {Operation_patch(operations[idx], content, options)} :
           /\ ~new_content.ok
           /\ pre' = content
           /\ req' = [op |-> operations[idx], line |-> ""]
           /\ res' = new_content
    /\ file' = content
    /\ pc' = "failed"
    /\ UNCHANGED <<loopVars, APPLICATION_MODULES, options, via, selection, operations, orig,
                   content, nreq, idx, modified, writes, run, mode, last, checkVars,
                   mainVars, log>>

\* one iteration whose operation raises: the exception leaves patch
patch_raise ==
    /\ pc = "loop"
    /\ idx <= Len(operations)
    /\ \E new_content \in {Operation_patch(operations[idx], content, options)} :
           /\ ~new_content.ok
           /\ pre' = content
           /\ req' = [op |-> operations[idx], line |-> ""]
           /\ res' = new_content
    /\ pc' = "failed"
    /\ UNCHANGED <<loopVars, APPLICATION_MODULES, options, via, selection, operations, file, orig,
                   content, nreq, idx, modified, writes, run, mode, last, checkVars,
                   mainVars, log>>

\* the check steps Patcher.check makes on the text
Checks(ops, content0) == [i \in DOMAIN ops |-> [op |-> ops[i], content |-> content0]]

\* patch_unchanged without the check steps
patch_unchanged_unchecked ==
    /\ pc = "loop"
    /\ idx > Len(operations)
    /\ modified = {}
    /\ pc' = "unchanged"
    /\ UNCHANGED <<loopVars, APPLICATION_MODULES, options, via, selection, operations, file, orig,
                   content, pre, req, res, nreq, idx, modified, writes, run, mode, last,
                   checkVars, mainVars, log>>

\* 'if not modified: self.check(content) ... return False'
patch_unchanged ==
    /\ pc = "loop"
    /\ idx > Len(operations)
    /\ modified = {}
    /\ checks' = checks \o Checks(operations, content)
    /\ warnings' = warnings \o Patcher_check(operations, content, current_file)
    /\ pc' = "unchanged"
    /\ UNCHANGED <<loopVars, APPLICATION_MODULES, options, via, selection, operations, file, orig,
                   content, pre, req, res, nreq, idx, modified, writes, run, mode, last,
                   mainVars, log>>

\* patch_write with the file written whatever to_stdout is
patch_write_always ==
    /\ pc = "loop"
    /\ idx > Len(operations)
    /\ modified # {}
    /\ file' = content
    /\ writes' = writes + 1
    /\ disk' = IF current_file \notin DOMAIN disk THEN disk
               ELSE [disk EXCEPT ![current_file] = content]
    /\ log' = Append(log, <<"write", current_file, content>>)
    /\ checks' = checks \o Checks(operations, content)
    /\ warnings' = warnings \o Patcher_check(operations, content, current_file)
    /\ pc' = "written"
    /\ UNCHANGED <<loopVars, APPLICATION_MODULES, options, via, selection, operations, orig,
                   content, pre, req, res, nreq, idx, modified, run, mode, last,
                   current_file, argv, paths, exitcode>>

\* the file is written unless to_stdout is set; 'self.check(content)';
\* 'return True'
patch_write ==
    /\ pc = "loop"
    /\ idx > Len(operations)
    /\ modified # {}
    /\ file' = IF options.to_stdout THEN file ELSE content
    /\ writes' = IF options.to_stdout THEN writes ELSE writes + 1
    /\ disk' = IF options.to_stdout \/ current_file \notin DOMAIN disk THEN disk
               ELSE [disk EXCEPT ![current_file] = content]
    /\ log' = IF options.to_stdout THEN log
              ELSE Append(log, <<"write", current_file, content>>)
    /\ checks' = checks \o Checks(operations, content)
    /\ warnings' = warnings \o Patcher_check(operations, content, current_file)
    /\ pc' = "written"
    /\ UNCHANGED <<loopVars, APPLICATION_MODULES, options, via, selection, operations, orig,
                   content, pre, req, res, nreq, idx, modified, run, mode, last,
                   current_file, argv, paths, exitcode>>

Ended == [output |-> file, modified |-> modified, pc |-> pc]

\* the Patcher patches the file once more, as the last call left it
run_again ==
    /\ pc \in {"unchanged", "written"}
    /\ run < MaxRuns
    /\ run' = run + 1
    /\ mode' = "again"
    /\ last' = Ended
    /\ pc' = "ready"
    /\ UNCHANGED <<loopVars, APPLICATION_MODULES, options, via, selection, operations, file, orig,
                   content, pre, req, res, nreq, idx, modified, writes, checkVars,
                   mainVars, log>>

\* the program is run once more with the same arguments on the file as it
\* was before the last run: a new process, a new Patcher
run_replay ==
    /\ pc \in {"failed", "unchanged", "written"}
    /\ run < MaxRuns
    /\ run' = run + 1
    /\ mode' = "replay"
    /\ last' = Ended
    /\ file' = orig
    /\ operations' \in Orders(ActiveNames(selection))
    /\ warnings' = <<>>
    /\ log' = <<>>
    /\ pc' = "ready"
    /\ UNCHANGED <<loopVars, APPLICATION_MODULES, options, via, selection, orig,
                   content, pre, req, res, nreq, idx, modified, writes, checks, mainVars>>

(***************************************************************************)
(* The patch and the check of one operation, applied to a text.            *)
(***************************************************************************)
\* the value tests.py gives to max_range
TEST_MAX_RANGE == 5

XrangeTexts ==
    {"xrange(5)\n", "xrange(6)\n", "xrange(1024)\n", "xrange(1025)\n",
     "xrange(1, 6)\n", "xrange(1, 7)\n", "xrange(2000, 2010)\n", "xrange(0, 1025)\n",
     "xrange(9, 1)\n", "xrange(n)\n", "xrange(0, 10, 2)\n", "xrange (5)\n",
     "moves.xrange(2000)\n", "moves.xrange(n)\n", "xrange(5) + xrange(n)\n",
     "moves.xrange(n) + xrange(5)\n"}

LongTexts ==
    {"values = (00L, 01L, 012L, 0123L)\n", "x = 123L\n", "x = 0L\n",
     "    y = 0777L + 1L\n", "x = 0123L\ny = 0644L\n", "f(0123L, 0644L)\n", "x = 1\n"}

UrllibTexts ==
    {"import urllib2\n\nurllib2.urlopen(url)\n",
     "import urllib2\n\nurllib2.open(url)\n",
     "import urllib2\n\nurllib2.parse_http_list(x)\n",
     "import urllib\n\nurllib.quote(s)\nurllib.bogus(s)\n",
     "import urllib2\n\nurllib2.urllib.quote(s)\n",
     "import urllib2\n\nurllib2.urlparse.bogus(s)\n",
     "import urlparse\n\nurlparse.urlparse(url)\n",
     "import os\n\nurllib2.open(url)\n",
     "from urllib import quote, bogus\n",
     "from urllib2 import parse_http_list\n",
     "from urllib2 import urlopen, parse_http_list\n\nx = 1\n",
     "from urlparse import urlparse, urljoin\nfrom urllib2 import urlopen, HTTPError\n\nx = 1\n",
     "from urllib import quote, urlopen\nfrom urllib2 import urlopen, URLError\n\nx = 1\n",
     "from urllib import urlopen\nfrom urllib2 import Request, urlopen\n\nx = 1\n"}

\* texts with the raise statements of two and three arguments
RaiseTexts ==
    {"raise a, b, c\n",
     "raise exc[0], exc[1], exc[2]\n",
     "raise a[0], b[1], c[2]\n",
     "raise exc[0], exc[1], tb\n",
     "raise Exception, 'message'\n",
     "raise Exception,'message'\n",
     "import six\n\nraise self.err(x), val, tb\nraise info[0], info[1], info[2]\n",
     "import copy\n\n\ndef f():\n    raise ValueError, msg\n    raise exc.a[0], exc.a[1], exc.a[2]  # again\n"}

OperationTexts == XrangeTexts \cup LongTexts \cup UrllibTexts \cup RaiseTexts

\* the operations that are applied to a text
AppliedNames == {"long", "xrange", "urllib", "raise"}

InitOperation ==
    /\ APPLICATION_MODULES = APPLICATION_MODULES_DEFAULT
    /\ options \in {[DefaultOptions EXCEPT !.max_range = m] : m \in {MAX_RANGE, TEST_MAX_RANGE}}
    /\ via = "api"
    /\ pc = "ready"
    /\ selection = AppliedNames
    /\ operations = <<>>
    /\ content \in OperationTexts
    /\ pre = content
    /\ req = NoRequest
    /\ res = Present(content)
    /\ nreq = 0
    /\ NoLoop
    /\ file = ""
    /\ orig = ""
    /\ idx = 0
    /\ modified = {}
    /\ writes = 0
    /\ run = 0
    /\ mode = "first"
    /\ last = NoRun
    /\ current_file = "file.py"
    /\ checks = <<>>
    /\ warnings = <<>>
    /\ exitcode = -1
    /\ log = <<>>
    /\ disk = <<>>
    /\ argv = <<>>
    /\ paths = <<>>

\* operation.patch(content): the caller keeps its text when it raises
OperationPatch(name) ==
    Request([op |-> name, line |-> ""], Operation_patch(name, content, options))

\* operation.check(content): its warnings are added to self.warnings
OperationCheck(name) ==
    /\ pc = "ready"
    /\ nreq < MaxRequests
    /\ res.ok
    /\ pre' = content
    /\ req' = [op |-> name, line |-> "check"]
    /\ checks' = Append(checks, [op |-> name, content |-> content])
    /\ warnings' = warnings \o Operation_check(name, content, current_file)
    /\ nreq' = nreq + 1
    /\ UNCHANGED <<loopVars, patcherVars, content, res, file, orig, idx, modified, writes, run, mode,
                   last, mainVars, log>>

NextOperation ==
    \/ \E name \in AppliedNames : OperationPatch(name)
    \/ \E name \in AppliedNames : OperationCheck(name)

SpecOperation == InitOperation /\ [][NextOperation]_vars

(***************************************************************************)
(* One call of add_import on a content: the placement of the line.         *)
(***************************************************************************)
\* import groups of a content add_import is called on
MaxPlanGroups == 3

\* the groups of the contents: __future__, stdlib, third-party,
\* application, unclassified (names that start with a stdlib and with an
\* application name), and two groups with names of two classes
PlanGroupTexts ==
    <<"from __future__ import division\n",
      "import copy\nimport os\n",
      "import oslo_utils\nimport testtools\n",
      "import nova\n",
      "import copy_reg\nimport novaclient\n",
      "import nova\nimport oslo_config\n",
      "import copy\nimport glance\n">>

\* what follows the import groups: nothing, code after one blank line, code
\* after two blank lines
PlanTails == {"", "\ncode\n", "\n\ndef f():\n    pass\n"}

\* the groups ks, the __future__ group first, and a tail; a file without
\* import, a file with an import after its code, and a file with three
\* groups after its __future__ group
PlanContents ==
    {JoinGroups(PlanGroupTexts, ks) \o t :
        ks \in {k \in UNION {[1..n -> DOMAIN PlanGroupTexts] : n \in 1..MaxPlanGroups} :
                  /\ \A i, j \in DOMAIN k : i # j => k[i] # k[j]
                  /\ FutureAtTop(k)},
        t \in PlanTails}
    \cup {"", "code\n", "import copy\n\ncode\nimport oslo_utils\n",
          JoinGroups(PlanGroupTexts, <<1, 4, 2, 3>>) \o "\ncode\n"}

\* the lines add_import is called with
PlanLines == {"import six", "import mock", "from six.moves import queue"}

InitPlan ==
    /\ APPLICATION_MODULES = APPLICATION_MODULES_DEFAULT
    /\ options = DefaultOptions
    /\ via = "api"
    /\ pc = "ready"
    /\ selection = {}
    /\ operations = <<>>
    /\ content \in PlanContents
    /\ pre = content
    /\ req = NoRequest
    /\ res = Present(content)
    /\ nreq = 0
    /\ NoLoop
    /\ NoPatch
    /\ disk = <<>>
    /\ argv = <<>>
    /\ paths = <<>>

\* patcher.add_import(content, line), called once on a content
PlanImport(line) == nreq = 0 /\ AddImport(line)

NextPlan == \E line \in PlanLines : PlanImport(line)

SpecPlan == InitPlan /\ [][NextPlan]_vars

(***************************************************************************)
(* add_import_names on a content, its loops gone through an iteration at a *)
(* time: pc is "parse" in the loop of parse_import_groups, "scan" in the   *)
(* while loop that finds the place in the group, "ready" when it returned. *)
(***************************************************************************)
\* the length of the contents whose loops are gone through
MaxScanLen == 55

ScanContents == {c \in PlanContents : Len(c) <= MaxScanLen}

InitScan ==
    /\ APPLICATION_MODULES = APPLICATION_MODULES_DEFAULT
    /\ options = DefaultOptions
    /\ via = "api"
    /\ pc = "parse"
    /\ selection = {}
    /\ operations = <<>>
    /\ content \in ScanContents
    /\ pre = content
    /\ req \in {[op |-> "add_import_names", line |-> line] : line \in PlanLines}
    /\ res = Present(content)
    /\ nreq = 0
    /\ loop_pos = 0
    /\ loop_groups = <<>>
    /\ NoPatch
    /\ disk = <<>>
    /\ argv = <<>>
    /\ paths = <<>>

\* the group the while loop goes through
ScanGroup == Locate(ConsideredGroups(loop_groups)).group

\* 'import_groups.append(...); pos = match.end()' for the match of the search
ParseAppend(match) ==
    /\ \E import_group \in {Slice(content, match[1], match[2])} :
          loop_groups' = Append(loop_groups,
                                [start |-> match[1], end |-> match[2],
                                 imports |-> IMPORT_NAME_REGEX_names(import_group)])
    /\ loop_pos' = match[2]

\* an iteration of the loop of parse_import_groups that has a match
ParseGroup ==
    /\ pc = "parse"
    /\ \E match \in {IMPORT_GROUP_REGEX_search(content, loop_pos)} :
          /\ match # <<>>
          /\ ParseAppend(match)
    /\ UNCHANGED <<patcherVars, content, pre, req, res, nreq, patchVars>>

\* add_import_names returns result
ScanReturn(result) ==
    /\ pc' = "ready"
    /\ \E returned \in {result} :
          /\ res' = returned
          /\ content' = IF returned.ok THEN returned.text ELSE content
    /\ nreq' = nreq + 1
    /\ UNCHANGED <<patcherVars_but_pc, pre, req, loop_groups, patchVars>>

\* the break of the loop of parse_import_groups, and add_import_names up to
\* its while loop: it returns before the loop unless the line goes into a
\* group
ParseBreak ==
    /\ pc = "parse"
    /\ IMPORT_GROUP_REGEX_search(content, loop_pos) = <<>>
    /\ IF loop_groups # <<>> /\ Locate(ConsideredGroups(loop_groups)).kind = "into"
       THEN /\ pc' = "scan"
            /\ loop_pos' = ScanGroup.start
            /\ UNCHANGED <<patcherVars_but_pc, content, pre, req, res, nreq, loop_groups,
                           patchVars>>
       ELSE /\ ScanReturn(add_import_names_groups(content, RStrip(req.line) \o NL,
                                                  parse_import(req.line).names, loop_groups))
            /\ UNCHANGED loop_pos

\* the while loop breaks on the line, or its condition is false
ScanBreaks(line) ==
    \/ ~(loop_pos < ScanGroup.end)
    \/ line = NL
    \/ \E import_names \in {parse_import(req.line).names}, parsed \in {parse_import(line)} :
          NamesBefore(import_names, parsed)

\* an iteration of the while loop that goes on: 'pos += len(line)'
ScanLine ==
    /\ pc = "scan"
    /\ \E line \in {get_line(content, loop_pos)} :
          /\ ~ScanBreaks(line)
          /\ loop_pos' = loop_pos + Len(line)
    /\ UNCHANGED <<patcherVars, content, pre, req, res, nreq, loop_groups, patchVars>>

\* the end of the while loop, and the return of the text with the line
ScanEnd ==
    /\ pc = "scan"
    /\ \E line \in {get_line(content, loop_pos)} : ScanBreaks(line)
    /\ ScanReturn(add_import_names_at(content, RStrip(req.line) \o NL,
                                      ConsideredGroups(loop_groups), loop_pos))
    /\ UNCHANGED loop_pos

NextScan ==
    \/ ParseGroup
    \/ ParseBreak
    \/ ScanLine
    \/ ScanEnd

\* the program goes on running: a loop that can make an iteration makes it
SpecScan == InitScan /\ [][NextScan]_vars /\ WF_vars(NextScan)

(***************************************************************************)
(* A run of the program on several paths: main, Patcher.walk and           *)
(* Patcher.main.                                                           *)
(***************************************************************************)
\* the path arguments of a run
MaxPaths == 3

\* the directories of the file system
Directories == {"pkg", "docs"}

\* the files of the file system
FileNames == {"a.py", "b.py", "pkg/m.py", "docs/notes.txt"}

\* a file no operation changes, one Long changes, one Xrange raises the
\* placement error for
MainTexts == {"x = 1\n", "x = 1L\n", "import Queue\n\nxrange(n)\n"}

Disks ==
    {[f \in FileNames |->
         CASE f = "a.py" -> a [] f = "b.py" -> b [] f = "pkg/m.py" -> "y = 2L\n"
           [] OTHER -> "notes\n"] : a \in MainTexts, b \in {"x = 1\n", "x = 1L\n"}}

\* files, a directory with a .py file, one without, a path that is absent
PathNames == {"a.py", "b.py", "pkg", "docs", "missing"}

MainSelections == {{"long", "xrange"}, {"xrange"}, {"long", "bogus"}}

InitMain ==
    /\ APPLICATION_MODULES = APPLICATION_MODULES_DEFAULT
    /\ options = DefaultOptions
    /\ via = "main"
    /\ pc = "start"
    /\ selection \in MainSelections
    /\ operations = <<>>
    /\ content = ""
    /\ pre = ""
    /\ req = NoRequest
    /\ res = Present("")
    /\ nreq = 0
    /\ NoLoop
    /\ NoPatch
    /\ disk \in Disks
    /\ argv \in {a \in UNION {[1..n -> PathNames] : n \in 0..MaxPaths} :
                     \A i, j \in DOMAIN a : i # j => a[i] # a[j]}
    /\ paths = argv

\* Patcher._walk_dir: the .py files under the directory
walk_dir(path, fs) ==
    Sorted({f \in DOMAIN fs : StartsWithAt(f, 0, path \o "/") /\ EndsWith(f, ".py")})

\* the warning of Patcher.walk for a path that gave no file
walk_warning(path) ==
    IF path \in Directories
    THEN "Directory " \o path \o " doesn't contain any .py file"
    ELSE "Path " \o path \o " doesn't exist"

\* a walk with a warning emitted before it goes on
Warned(msg, walked) == [walked EXCEPT !.warnings = <<msg>> \o @]

RECURSIVE walk(_, _)
\* Patcher.walk resumed with the paths ps left: the next file it yields
\* ("" when it ends), the paths left then (the other files of a
\* directory first), and the warnings it emits on the way
walk(ps, fs) ==
    IF ps = <<>> THEN [file |-> "", rest |-> <<>>, warnings |-> <<>>]
    ELSE IF Head(ps) \in DOMAIN fs
    THEN [file |-> Head(ps), rest |-> Tail(ps), warnings |-> <<>>]
    ELSE IF walk_dir(Head(ps), fs) # <<>>
    THEN [file |-> Head(walk_dir(Head(ps), fs)),
          rest |-> Tail(walk_dir(Head(ps), fs)) \o Tail(ps), warnings |-> <<>>]
    ELSE Warned(walk_warning(Head(ps)), walk(Tail(ps), fs))

\* Patcher.main: the loop asks walk for the next file, at first and when
\* patch has returned; patch is called with the file, or the loop ends and
\* the process with it
main_walk ==
    /\ via = "main"
    /\ (pc = "ready" /\ current_file = "") \/ pc \in {"unchanged", "written"}
    /\ \E walked \in {walk(paths, disk)} :
           /\ warnings' = warnings \o walked.warnings
           /\ paths' = walked.rest
           /\ IF walked.file = ""
              THEN /\ pc' = "exit"
                   /\ exitcode' = 0
                   /\ UNCHANGED <<current_file, file>>
              ELSE /\ pc' = "ready"
                   /\ current_file' = walked.file
                   /\ file' = disk[walked.file]
                   /\ UNCHANGED exitcode
    /\ UNCHANGED <<loopVars, patcherVars_but_pc, content, pre, req, res, nreq, orig, idx, modified,
                   writes, run, mode, last, checks, disk, argv, log>>

\* main_raise with the exception dropped: the loop goes on
main_raise_continue ==
    /\ via = "main"
    /\ pc = "failed"
    /\ pc' = "unchanged"
    /\ exitcode' = 1
    /\ UNCHANGED <<loopVars, patcherVars_but_pc, content, pre, req, res, nreq, file, orig, idx,
                   modified, writes, run, mode, last, checkVars, current_file, disk, argv,
                   paths, log>>

\* Patcher.main: 'except Exception: ... raise'; the exception ends the
\* process
main_raise ==
    /\ via = "main"
    /\ pc = "failed"
    /\ pc' = "exit"
    /\ exitcode' = 1
    /\ UNCHANGED <<loopVars, patcherVars_but_pc, content, pre, req, res, nreq, file, orig, idx,
                   modified, writes, run, mode, last, checkVars, current_file, disk, argv,
                   paths, log>>

NextMain ==
    \/ parse_options_exit
    \/ parse_options
    \/ Patcher_init
    \/ main_walk
    \/ patch_read
    \/ patch_operation
    \/ patch_raise
    \/ patch_unchanged
    \/ patch_write
    \/ main_raise

SpecMain == InitMain /\ [][NextMain]_vars

NextPatch ==
    \/ Patcher_init
    \/ patch_read
    \/ patch_operation
    \/ patch_raise
    \/ patch_unchanged
    \/ patch_write
    \/ run_again
    \/ run_replay

SpecPatch == InitPatch /\ [][NextPatch]_vars

(***************************************************************************)
(* Properties of the import requests (Spec).                               *)
(***************************************************************************)
\* the offsets where an import line of text starts
ImportLineStarts(text) ==
    {p \in 0..(Len(text) - 1) :
        /\ AtLineStart(text, p)
        /\ StartsWithAt(text, p, "import ") \/ StartsWithAt(text, p, "from ")}

\* the line of text that starts at p, without its newline
LineAt(text, p) == Slice(text, p, RunEndNot(text, p, {NL}))

\* no import line occurs twice in text
NoDuplicateImport(text) ==
    \A p, q \in ImportLineStarts(text) : p # q => LineAt(text, p) # LineAt(text, q)

ImportRequests == {"add_import", "add_import_six"}

\* C1: after a request of any kind (add_import, add_import_six, the
\* requests of SixMoves) for lines written without trailing whitespace, a
\* content in which no import line occurred twice is still one in which no
\* import line occurs twice.
C1_EachImportLineOnce ==
    (req.op # "none" /\ req.line = RStrip(req.line) /\ NoDuplicateImport(pre))
        => NoDuplicateImport(content)

\* C2: add_import returns the content unchanged when the line is already a
\* complete line of it, and add_import applied to its own result with the
\* same line returns that result, for every line.
C2_AddImportIdempotent ==
    (req.op = "add_import" /\ res.ok) =>
        /\ LineSearch(req.line, pre) => content = pre
        /\ add_import(content, req.line).ok
        /\ add_import(content, req.line).text = content

\* the texts add_import may insert for a line: the line without trailing
\* whitespace between at most one newline and one to three newlines
InsertionTexts(line) ==
    {a \o RStrip(line) \o b : a \in {"", "\n"}, b \in {"\n", "\n\n", "\n\n\n"}}

\* text is pre with one of the texts of ins inserted at one offset
SingleInsertion(text, pre0, ins) ==
    \E p \in 0..Len(pre0) :
        /\ Slice(text, 0, p) = Slice(pre0, 0, p)
        /\ Slice(text, p, p + (Len(text) - Len(pre0))) \in ins
        /\ SliceFrom(text, p + (Len(text) - Len(pre0))) = SliceFrom(pre0, p)

\* C7: the result of add_import (and of add_import_six) is the original
\* content, or the original content with one contiguous insertion made of
\* the import line and newlines only.
C7_SingleInsertion ==
    (req.op \in ImportRequests /\ res.ok) =>
        \/ content = pre
        \/ SingleInsertion(content, pre, InsertionTexts(req.line))

\* a line was inserted inside the text, into an existing group
C7_Witness ==
    /\ req.op = "add_import"
    /\ res.ok
    /\ res.kind = "into"
    /\ 0 < res.pos
    /\ res.pos < Len(pre)
    /\ content # pre

\* the line imports six or a module of six
ShimLine(line) == parse_import(line).ok /\ Head(parse_import(line).names) = "six"

\* the group is classified application: no third-party name, an application
\* name
ApplicationClassified(g) == ~AnyThirdParty(g.imports) /\ AnyApplication(g.imports)

\* C8: when add_import makes a new group for a six import, every
\* application-classified group of the result starts after the offset the
\* new group was inserted at, and every application-classified group of the
\* original content starts at or after it.
C8_NewGroupNotAfterApplication ==
    (req.op \in ImportRequests /\ res.ok /\ res.kind = "new" /\ ShimLine(req.line)) =>
        /\ \A g \in Range(parse_import_groups(pre)) :
              ApplicationClassified(g) => res.pos <= g.start
        /\ \A h \in Range(parse_import_groups(content)) :
              ApplicationClassified(h) => res.pos < h.start

\* a new group was made for a six import in a content that has an
\* application group
C8_Witness ==
    /\ req.op \in ImportRequests
    /\ res.ok
    /\ res.kind = "new"
    /\ ShimLine(req.line)
    /\ \E g \in Range(parse_import_groups(pre)) : ApplicationClassified(g)

\* every 'from __future__ import' line of text is in the first import group
FutureFirst(text) ==
    \A p \in ImportLineStarts(text) :
        StartsWithAt(text, p, "from __future__ import ") =>
            /\ parse_import_groups(text) # <<>>
            /\ parse_import_groups(text)[1].start <= p
            /\ p < parse_import_groups(text)[1].end

\* the first import group of text imports __future__ only
LeadingFutureGroup(text) ==
    /\ parse_import_groups(text) # <<>>
    /\ parse_import_groups(text)[1].imports = {"__future__"}

FutureLine(line) == StartsWithAt(line, 0, "from __future__ import ")

\* C9: after add_import on a content whose __future__ imports are all in
\* the first import group, the __future__ imports of the result are all in
\* its first import group; a __future__ import is added (the request does
\* not fail); and a line that is not a __future__ import leaves a leading
\* group of __future__ imports a group of __future__ imports only.
C9_FutureImportsFirst ==
    (req.op = "add_import" /\ FutureFirst(pre)) =>
        /\ res.ok => FutureFirst(content)
        /\ FutureLine(req.line) => res.ok /\ LineSearch(req.line, content)
        /\ (res.ok /\ ~FutureLine(req.line) /\ LeadingFutureGroup(pre))
              => LeadingFutureGroup(content)

(***************************************************************************)
(* Properties of a Patcher given options (SpecOptions).                    *)
(***************************************************************************)
\* the third-party prefixes of the options
SuppliedThirdParty(opts) ==
    IF opts.third_party = "" THEN {} ELSE Range(Split(opts.third_party, ","))

\* a name of the group starts with a third-party prefix of the options
ImportsSuppliedThirdParty(g, opts) ==
    \E name \in g.imports : \E prefix \in SuppliedThirdParty(opts) :
        StartsWithAt(name, 0, prefix)

\* C10: for a six import requested from a Patcher built with options, when
\* the first import group considered (of other than three) imports a module
\* that matches a third-party prefix of the options, the line is inserted
\* into that group; otherwise, when it imports the application name of the
\* options, the line becomes a new group right before it.
C10_OptionsUsed ==
    LET groups == ConsideredGroups(parse_import_groups(pre))
    IN  (/\ req.op \in ImportRequests
         /\ ShimLine(req.line)
         /\ ~LineSearch(req.line, pre)
         /\ groups # <<>>
         /\ Len(groups) # 3) =>
            /\ ImportsSuppliedThirdParty(groups[1], options) =>
                  /\ res.ok
                  /\ res.kind = "into"
                  /\ groups[1].start <= res.pos
                  /\ res.pos <= groups[1].end
            /\ (~ImportsSuppliedThirdParty(groups[1], options)
                    /\ options.app # "" /\ options.app \in groups[1].imports) =>
                  /\ res.ok
                  /\ res.kind = "new"
                  /\ res.pos = groups[1].start

(***************************************************************************)
(* Properties of Patcher.patch (SpecPatch).                                *)
(***************************************************************************)
Terminal == {"failed", "unchanged", "written"}

\* no group is classified third-party, application or stdlib
NoneClassified(groups) ==
    \A g \in Range(groups) :
        ~AnyThirdParty(g.imports) /\ ~AnyApplication(g.imports) /\ ~AnyStdlib(g.imports)

C4_NeverPartiallyCommitted ==
    /\ pc \in {"loop", "failed", "unchanged"} => file = orig /\ writes = 0
    /\ (pc = "written" /\ ~options.to_stdout) =>
          /\ idx > Len(operations)
          /\ writes = 1
          /\ file = content

\* an operation raised after another had changed the text
C4_Witness ==
    /\ pc = "failed"
    /\ modified # {}
    /\ content # orig
    /\ file = orig

\* C5: a run with the same arguments on the same input ends as the run
\* before it did: with the same text in the file, the same outcome
\* (written, unchanged or failed) and, when the file is written, the same
\* set of applied operations.
C5_SameInputSameOutput ==
    (mode = "replay" /\ pc \in Terminal) =>
        /\ file = last.output
        /\ pc = last.pc
        /\ pc = "written" => modified = last.modified

\* C6: a second run with every operation on the file the first run left
\* leaves the same text; and an operation applied to the text it returned
\* returns that text.
C6_Idempotent ==
    /\ (mode = "again" /\ pc \in Terminal /\ selection = {"all"}) => file = last.output
    /\ (pc = "loop" /\ req.op \in OPERATION_NAMES) =>
          /\ Operation_patch(req.op, content, options).ok
          /\ Operation_patch(req.op, content, options).text = content

\* texts with the text the operation makes of the last of them
TextsStep(texts, name, opts) ==
    Append(texts, Operation_patch(name, texts[Len(texts)], opts).text)

RECURSIVE TextsAfter(_, _, _, _)
\* the text given and the texts the first i operations of ops returned
TextsAfter(ops, i, text, opts) ==
    IF i = 0 THEN <<text>>
    ELSE TextsStep(TextsAfter(ops, i - 1, text, opts), ops[i], opts)

\* the operations of the current patch call that have returned
Returned == IF pc = "ready" \/ pc = "start" THEN {} ELSE 1..(idx - 1)

\* modified holds the names of the operations that changed their text
ModifiedAre(texts) ==
    /\ \A i \in Returned : operations[i] \in modified <=> texts[i + 1] # texts[i]
    /\ modified \subseteq {operations[i] : i \in Returned}

\* C11: an operation that has just returned is in the set of applied
\* operations if and only if the text it returned differs from the text it
\* was given; and when the patch call has ended, the set holds the names of
\* the operations that returned a text different from the one they were
\* given in that call, and no other name.
C11_ModifiedIffChanged ==
    /\ (pc = "loop" /\ req.op # "none") =>
          /\ req.op = operations[idx - 1]
          /\ req.op \in modified <=> content # pre
    /\ pc \in Terminal => ModifiedAre(TextsAfter(operations, idx - 1, orig, options))

\* the file is written after an operation returned its text unchanged and
\* another changed it
C11_Witness ==
    /\ pc = "written"
    /\ modified # {}
    /\ \E i \in Returned : operations[i] \notin modified

\* C12: while the operations run and when one raised, no check step of
\* the call has been made; when patch has returned, changed or not, the
\* check steps made are one for each active operation, each made on the
\* final text, the text the last patch step left.
C12_CheckedOnceOnFinalContent ==
    /\ pc \in {"loop", "failed"} => checks = <<>>
    /\ pc \in {"unchanged", "written"} =>
          /\ idx > Len(operations)
          /\ req.op # "none" => req.op = operations[Len(operations)] /\ content = res.text
          /\ \A c \in Range(checks) : c.content = content
          /\ \A name \in ActiveNames(selection) :
                Cardinality({i \in DOMAIN checks : checks[i].op = name}) = 1
          /\ Len(checks) = Cardinality(ActiveNames(selection))

\* patch returned False and the checks of two operations were made
C12_Witness ==
    /\ pc = "unchanged"
    /\ Len(checks) >= 2
    /\ content = orig

UnknownOperation == ~(selection \subseteq OPERATION_NAMES \cup {"all"})

\* the path is a directory with no .py file under it
EmptyDirectory(path) == path \in Directories /\ walk_dir(path, disk) = <<>>

\* the path is neither a file nor a directory
Nonexistent(path) == path \notin DOMAIN disk /\ path \notin Directories

\* an operation raised the import-placement error
PlacementRaised == ~res.ok /\ res.error = "placement"

\* C14: when the process has ended after an unknown operation name was
\* requested, or a directory argument holds no .py file, or a path
\* argument does not exist, or an operation raised the import-placement
\* error, its exit status is not zero.
C14_NonZeroExit ==
    (/\ pc = "exit"
     /\ \/ UnknownOperation
        \/ \E i \in DOMAIN argv : EmptyDirectory(argv[i]) \/ Nonexistent(argv[i])
        \/ PlacementRaised) => exitcode # 0

\* C15: in a run that is given an unknown operation or a path that does
\* not exist, no file is ever read or written.
C15_ConfigErrorsBeforeFiles ==
    (UnknownOperation \/ \E i \in DOMAIN argv : Nonexistent(argv[i])) => log = <<>>

\* patch raised for the current file, and the exception has left patch or
\* has ended the process
Raised == pc = "failed" \/ (pc = "exit" /\ ~res.ok)

\* C16: once patch has raised for a file, the file read last is that file
\* and it is on disk as it was read; every file written before it is on
\* disk as it was written; no file of the paths left has been opened; and
\* the process ends at once, with exit status 1: the status is set only
\* when the process has ended.
C16_StopsAtFirstFailure ==
    /\ exitcode # -1 => pc = "exit"
    /\ Raised =>
          /\ log # <<>>
          /\ log[Len(log)] = <<"read", current_file, disk[current_file]>>
          /\ \A i \in DOMAIN log : log[i][1] = "write" => disk[log[i][2]] = log[i][3]
          /\ \A i \in DOMAIN paths, j \in DOMAIN log : log[j][2] # paths[i]
          /\ pc = "exit" => exitcode = 1

\* the process ended when patch raised for a file, after another file was
\* rewritten and with a file left to patch
C16_Witness ==
    /\ pc = "exit"
    /\ ~res.ok
    /\ exitcode = 1
    /\ \E i \in DOMAIN log : log[i][1] = "write"
    /\ \E i \in DOMAIN paths : paths[i] \in DOMAIN disk

(***************************************************************************)
(* Properties of the patch and the check of one operation (SpecOperation). *)
(***************************************************************************)
\* the request for an import was made: the text was given the import,
\* or had it, or the request raised
ImportRequested == ~res.ok \/ res.kind # "none"

\* the offsets of the xrange calls of the three shapes
Calls1(text) == {p \in 0..Len(text) : XRANGE1_REGEX(text, p) # -1}

Calls2(text) == {p \in 0..Len(text) : XRANGE2_REGEX(text, p) # -1}

CallsOther(text) ==
    {p \in 0..Len(text) : XRANGE_REGEX(text, p) # -1} \ (Calls1(text) \cup Calls2(text))

\* the number the digits of text from p on write
NumberAt(text, p) == ParseInt(Slice(text, p, RunEnd(text, p, Digits)))

\* the offsets where sub occurs in text
Occurrences(text, sub) == {p \in 0..Len(text) : StartsWithAt(text, p, sub)}

\* C17: Xrange requests 'from six.moves import range' if and only if the
\* text it is given has a call xrange(N) with N > max_range, or a call
\* xrange(A, B) with B - A > max_range, or an xrange call of another shape
\* (calls after 'moves.' are no calls); without a request the text is
\* given no import; and the text it returns has as many 'moves.xrange' as
\* the text it was given.
C17_XrangeImportIffNeeded ==
    (req = [op |-> "xrange", line |-> ""]) =>
        /\ ImportRequested <=>
              \/ \E p \in Calls1(pre) : NumberAt(pre, p + 7) > options.max_range
              \/ \E p \in Calls2(pre) :
                    NumberAt(pre, RunEnd(pre, p + 7, Digits) + 2) - NumberAt(pre, p + 7)
                        > options.max_range
              \/ CallsOther(pre) # {}
        /\ ~ImportRequested => Occurrences(content, "import") = Occurrences(pre, "import")
        /\ Cardinality(Occurrences(content, "moves.xrange"))
              = Cardinality(Occurrences(pre, "moves.xrange"))

\* Xrange made no request for a call xrange(A, B) with B above max_range
\* and B - A not above it
C17_Witness ==
    /\ req = [op |-> "xrange", line |-> ""]
    /\ ~ImportRequested
    /\ content # pre
    /\ \E p \in Calls2(pre) : NumberAt(pre, RunEnd(pre, p + 7, Digits) + 2) > options.max_range

\* the offsets of the octal-looking literals of text: a 0, more digits, L
Octals(text) ==
    {p \in 0..Len(text) :
        /\ WordBoundary(text, p)
        /\ CharAt(text, p) = "0"
        /\ RunEnd(text, p, Digits) > p + 1
        /\ CharAt(text, RunEnd(text, p, Digits)) = "L"}

\* the octal-looking literal of text at p
OctalAt(text, p) == Slice(text, p, RunEnd(text, p, Digits) + 1)

\* the octal-looking literals of text, from the first to the last
OctalsOf(text) ==
    [i \in 1..Cardinality(Octals(text)) |->
        OctalAt(text, CHOOSE p \in Octals(text) :
                          Cardinality({q \in Octals(text) : q < p}) = i - 1)]

\* the messages of lines that are about the line
DiagnosticsOf(messages, text) == {i \in DOMAIN messages : messages[i] = text}

\* the check of Long was made once, and no other check
LongChecked == Len(checks) = 1 /\ checks[1].op = "long"

UrllibApplied == req = [op |-> "urllib", line |-> ""]

\* the text has a line 'import urllib', 'import urllib2' or 'import urlparse'
ImportsUrllib(text) ==
    \E module \in {"urllib", "urllib2", "urlparse"} : LineSearch("import " \o module, text)

\* an attribute of the three modules in the text whose name has no known
\* destination and is not the whitelisted parse_http_list
UnknownAttribute(text) ==
    \E p \in 0..(Len(text) - 1) :
        \/ /\ URLLIB2_MOD_ATTR_REGEX(text, p) # -1
           /\ Urllib_name(Slice(text, p, URLLIB2_MOD_ATTR_REGEX(text, p)))
                \notin UNION {SIX_MOVES_URLLIB[sub] : sub \in DOMAIN SIX_MOVES_URLLIB}
                       \cup {"parse_http_list"}
        \/ /\ URLLIB2_MOD_ATTR_REGEX(text, p) = -1
           /\ URLLIB_ATTR_REGEX(text, p) # -1
           /\ Urllib_name(Slice(text, p, URLLIB_ATTR_REGEX(text, p)))
                \notin UNION {SIX_MOVES_URLLIB[sub] : sub \in DOMAIN SIX_MOVES_URLLIB}
                       \cup {"parse_http_list"}

\* a 'from urllib|urllib2|urlparse import ...' line of the text without
\* parse_http_list that names a symbol with no known destination
UnknownFromImport(text) ==
    \E p \in 0..(Len(text) - 1) :
        /\ Urllib_FROM_IMPORT_REGEX(text, p) # -1
        /\ ~Contains(Slice(text, p, Urllib_FROM_IMPORT_REGEX(text, p)), "parse_http_list")
        /\ \E i \in p..(Len(text) - 1) :
              /\ i < Urllib_FROM_IMPORT_REGEX(text, p)
              /\ CharAt(text, i) \in {" ", ","}
              /\ IdentEnd(text, i + 1) > i + 1
              /\ Slice(text, i + 1, IdentEnd(text, i + 1)) # "import"
              /\ StartsWithAt(text, Urllib_MODULE_end(text, p + 5), " import ")
              /\ i >= Urllib_MODULE_end(text, p + 5) + 7
              /\ URLLIB(Slice(text, i + 1, IdentEnd(text, i + 1))) = ""

\* Urllib.patch meets a symbol with no known destination
MeetsUnknown(text) ==
    \/ ImportsUrllib(text) /\ UnknownAttribute(text)
    \/ UnknownFromImport(text)

\* the lines of the text that name the whitelisted symbol
Whitelisted(text) ==
    {i \in DOMAIN SplitLines(text) :
        \/ Contains(SplitLines(text)[i], "urllib2.parse_http_list")
        \/ /\ Contains(SplitLines(text)[i], "parse_http_list")
           /\ \E module \in {"urllib", "urllib2", "urlparse"} :
                 StartsWithAt(SplitLines(text)[i], 0, "from " \o module \o " import ")}

\* the check of Urllib was made once, and no other check
UrllibChecked == Len(checks) = 1 /\ checks[1].op = "urllib"

C19_Reported ==
    /\ UrllibChecked
    /\ Whitelisted(checks[1].content) # {}
    /\ LineSearch("from six.moves import urllib", checks[1].content)
    /\ Len(warnings) = 1


(***************************************************************************)
(* C20: the third-party group is the target.                               *)
(***************************************************************************)
\* the groups of the text that add_import_names considers
Considered(text) == ConsideredGroups(parse_import_groups(text))

\* the indexes of the third-party-classified groups
ThirdPartyGroups(groups) == {i \in DOMAIN groups : AnyThirdParty(groups[i].imports)}

\* the groups considered are not three, and one is third-party-classified
HeuristicWithThirdParty(text) ==
    Len(Considered(text)) # 3 /\ ThirdPartyGroups(Considered(text)) # {}

\* the first third-party-classified group of the groups
FirstThirdParty(groups) == groups[MinOf(ThirdPartyGroups(groups))]

\* an application-classified group is before the first third-party group
ApplicationFirst(groups) ==
    \E i \in DOMAIN groups :
        i < MinOf(ThirdPartyGroups(groups)) /\ ApplicationClassified(groups[i])

\* the request put its line into the group g of pre: at an offset of the
\* group, and the text has as many groups as before
InsertedInto(g) ==
    /\ res.ok
    /\ res.kind = "into"
    /\ g.start <= res.pos
    /\ res.pos <= g.end
    /\ StartsWithAt(content, res.pos, RStrip(req.line) \o NL)
    /\ Len(parse_import_groups(content)) = Len(parse_import_groups(pre))

\* an import request for a line that pre does not have
Inserting == req.op \in ImportRequests /\ ~(res.ok /\ res.kind = "present")

\* C20 as stated: when the groups considered are not three and one of them
\* is third-party-classified, the line is inserted into the first
\* third-party-classified group and no group is created.
C20_IntoFirstThirdParty ==
    (Inserting /\ HeuristicWithThirdParty(pre)) =>
        InsertedInto(FirstThirdParty(Considered(pre)))

\* C20: when the groups considered are not three, one of them is
\* third-party-classified and no application-classified group is before
\* the first of these, the line is inserted into the first
\* third-party-classified group and no group is created; with an
\* application-classified group before it, a new group is made at the start
\* of the first application-classified group.
C20_IntoFirstThirdPartyBeforeApplication ==
    (Inserting /\ HeuristicWithThirdParty(pre)) =>
        IF ApplicationFirst(Considered(pre))
        THEN /\ res.ok
             /\ res.kind = "new"
             /\ \E i \in DOMAIN Considered(pre) :
                   /\ ApplicationClassified(Considered(pre)[i])
                   /\ res.pos = Considered(pre)[i].start
                   /\ \A j \in 1..(i - 1) : ~ApplicationClassified(Considered(pre)[j])
        ELSE InsertedInto(FirstThirdParty(Considered(pre)))

\* a line was inserted into the third-party group of a text with two
\* groups, a stdlib group first
C20_Witness ==
    /\ Inserting
    /\ HeuristicWithThirdParty(pre)
    /\ Len(Considered(pre)) = 2
    /\ MinOf(ThirdPartyGroups(Considered(pre))) = 2
    /\ ~ApplicationFirst(Considered(pre))
    /\ InsertedInto(Considered(pre)[2])
    /\ content # pre


(***************************************************************************)
(* C21: a new group before the application group.                          *)
(***************************************************************************)
\* the indexes of the application-classified groups that no third-party
\* group precedes
ApplicationFound(groups) ==
    {i \in DOMAIN groups :
        /\ ApplicationClassified(groups[i])
        /\ \A j \in 1..(i - 1) : ~AnyThirdParty(groups[j].imports)}

\* the line is a group of its own in the groups of the result, starting at
\* start, with one blank line between it and the group after it, which
\* has the imports of the group next
NewGroupBefore(groups, text, line, start, next) ==
    \E k \in 1..(Len(groups) - 1) :
        /\ groups[k].start = start
        /\ Slice(text, groups[k].start, groups[k].end) = RStrip(line) \o "\n\n"
        /\ groups[k + 1].start = groups[k].end
        /\ groups[k + 1].imports = next.imports

\* the offset where a new group put at pos starts in the result: after the
\* newline that is added when the text before pos has no blank line at its
\* end
NewGroupStart(text, pos) ==
    IF pos = 0 \/ StartsWithAt(text, pos - 2, "\n\n") THEN pos ELSE pos + 1

\* the new group is before the first application group of the groups
\* considered, when they are not three and the scan meets one
NewGroupBeforeFirst(groups, after) ==
    (Len(groups) # 3 /\ ApplicationFound(groups) # {}) =>
        /\ res.ok
        /\ res.kind = "new"
        /\ res.pos = groups[MinOf(ApplicationFound(groups))].start
        /\ NewGroupBefore(after, content, req.line, NewGroupStart(pre, res.pos),
                          groups[MinOf(ApplicationFound(groups))])
        /\ Len(after) = Len(parse_import_groups(pre)) + 1

StdlibGroups(groups) == {i \in DOMAIN groups : AnyStdlib(groups[i].imports)}

\* the scan meets no third-party and no application group, and a stdlib
\* group
OnlyStdlibFound(groups) ==
    /\ Len(groups) # 3
    /\ \A i \in DOMAIN groups :
          ~AnyThirdParty(groups[i].imports) /\ ~AnyApplication(groups[i].imports)
    /\ StdlibGroups(groups) # {}

\* the last group of groups is the line alone, and starts at start
NewGroupLast(groups, text, line, start) ==
    /\ groups # <<>>
    /\ groups[Len(groups)].start = start
    /\ Slice(text, start, groups[Len(groups)].end) \in
          {RStrip(line) \o nl : nl \in {"\n", "\n\n", "\n\n\n"}}

\* the new group is at the end of the last stdlib group
NewGroupAfterStdlib(groups) ==
    OnlyStdlibFound(groups) =>
        /\ res.ok
        /\ res.kind = "new"
        /\ res.pos = groups[-MinOf({-i : i \in StdlibGroups(groups)})].end

\* the new group is at the end of the last group, and the last group of
\* the result
NewGroupAfterLast(groups, after) ==
    OnlyStdlibFound(groups) =>
        /\ res.ok
        /\ res.kind = "new"
        /\ res.pos = groups[Len(groups)].end
        /\ NewGroupLast(after, content, req.line, NewGroupStart(pre, res.pos))
        /\ Len(after) = Len(parse_import_groups(pre)) + 1

IntoSecondOfThree(groups) == Len(groups) = 3 => InsertedInto(groups[2])

\* C23: when three groups are considered (a leading group that imports
\* __future__ only is not), the line is inserted into the second of the
\* three, at an offset of that group, and the text has as many groups as
\* before.
C23_MiddleOfThree ==
    Inserting => IntoSecondOfThree(Considered(pre))

\* the line was inserted into the second of three groups after a __future__
\* group, a stdlib group between an application and a third-party group
C23_Witness ==
    /\ Inserting
    /\ Len(parse_import_groups(pre)) = 4
    /\ Len(Considered(pre)) = 3
    /\ ApplicationClassified(Considered(pre)[1])
    /\ AnyThirdParty(Considered(pre)[3].imports)
    /\ InsertedInto(Considered(pre)[2])
    /\ content # pre


(***************************************************************************)
(* C24: the place of the line in a group.                                  *)
(***************************************************************************)
\* the offsets of the statements of the group g of text
Statements(text, g) ==
    {p \in g.start..(g.end - 1) : ImportLineEnd(text, p) # -1}

\* the module-name list of the statement of text at p
NamesAt(text, p) == parse_import(get_line(text, p)).names

\* the offset after the last statement of the group g, where its trailing
\* blank lines start
StatementsEnd(text, g) == ImportLinesEnd(text, g.start)

\* the statements of the group are in ascending order of their name lists
Ascending(text, g) ==
    \A p, q \in Statements(text, g) :
        p < q => ~ListLess(NamesAt(text, q), NamesAt(text, p))

\* the line was put at pos in the group g of pre: before the first
\* statement whose names sort after names, or after the last statement
PlacedInOrder(g, pos, names) ==
    /\ \A p \in Statements(pre, g) : p < pos => ~ListLess(names, NamesAt(pre, p))
    /\ \/ pos \in Statements(pre, g) /\ ListLess(names, NamesAt(pre, pos))
       \/ pos = StatementsEnd(pre, g)

\* the line with the names was put in order into a group of before, which
\* is in order in after when it was in before
InsertedInOrder(before, after, names) ==
    \E i \in DOMAIN before :
        /\ before[i].start <= res.pos
        /\ res.pos <= before[i].end
        /\ PlacedInOrder(before[i], res.pos, names)
        /\ res.pos \in Statements(content, after[i])
        /\ Ascending(pre, before[i]) => Ascending(content, after[i])

\* C24: when add_import inserts into a group, the line is put before the
\* first statement of the group whose module-name list sorts after the
\* line's, or after the last statement and before the blank lines of the
\* group when no statement does; and when the statements of the group were
\* in ascending order, the statements of the group with the line are.
C24_InsertedInOrder ==
    (Inserting /\ res.ok /\ res.kind = "into") =>
        InsertedInOrder(parse_import_groups(pre), parse_import_groups(content),
                        parse_import(req.line).names)

\* a line was put between two statements of a group
C24_Witness ==
    /\ Inserting
    /\ res.ok
    /\ res.kind = "into"
    /\ \E g \in Range(parse_import_groups(pre)) :
          /\ g.start < res.pos
          /\ res.pos \in Statements(pre, g)
          /\ ListLess(parse_import(req.line).names, NamesAt(pre, res.pos))
          /\ Ascending(pre, g)
    /\ get_line(content, res.pos) = RStrip(req.line) \o NL


(***************************************************************************)
(* C25: the blank lines around a new group.                                *)
(***************************************************************************)
\* the request made a new group: next to the groups of pre, or the first
\* group of a text without import
NewGroupMade == Inserting /\ res.ok /\ res.kind \in {"new", "first"}

\* the offset of the line of the new group in the result
NewLineStart == IF res.kind = "first" THEN 0 ELSE NewGroupStart(pre, res.pos)

\* the offset after the line of the new group in the result
NewLineEnd == NewLineStart + Len(RStrip(req.line)) + 1

\* the blank lines of text that end at the offset p of a line start
BlankLinesBefore(text, p) ==
    p - 1 - MinOf({q \in 0..(p - 1) : \A i \in q..(p - 1) : CharAt(text, i) = NL})

\* the blank lines of text that start at the offset p of a line start
BlankLinesAfter(text, p) == NewlinesEnd(text, p) - p

\* an import group of groups ends before the offset p
GroupBefore(groups, p) == \E i \in DOMAIN groups : groups[i].start < p

\* C25 as stated: when add_import makes a new group, the result has one
\* blank line between the group before the new line and the new line, one
\* blank line between the new line and an import group that follows it, and
\* two blank lines between the new line and the code that follows it when
\* no import group does.
C25_BlankLines ==
    NewGroupMade =>
        /\ GroupBefore(parse_import_groups(content), NewLineStart)
              => BlankLinesBefore(content, NewLineStart) = 1
        /\ NewlinesEnd(content, NewLineEnd) < Len(content)
              => BlankLinesAfter(content, NewLineEnd)
                    = IF ImportLineEnd(content, NewlinesEnd(content, NewLineEnd)) # -1
                      THEN 1 ELSE 2

\* the blank lines after a new group are one before an import group and
\* two before code, and the blank lines before it are those of pre, one
\* when pre had none
C25_BlankLinesKept ==
    NewGroupMade =>
        /\ get_line(content, NewLineStart) = RStrip(req.line) \o NL
        /\ GroupBefore(parse_import_groups(content), NewLineStart)
              => BlankLinesBefore(content, NewLineStart)
                    = Max(1, BlankLinesBefore(pre, res.pos))
        /\ NewlinesEnd(content, NewLineEnd) < Len(content)
              => BlankLinesAfter(content, NewLineEnd)
                    = IF ImportLineEnd(content, NewlinesEnd(content, NewLineEnd)) # -1
                      THEN 1 ELSE 2


(***************************************************************************)
(* C26: the classification of a group.                                     *)
(***************************************************************************)
\* the class of a group by the priority third-party prefix, application
\* name, stdlib name
ClassOf(imports) ==
    IF \E name \in imports :
          \E prefix \in THIRD_PARTY_MODULES : Slice(name, 0, Len(prefix)) = prefix
    THEN "third-party"
    ELSE IF imports \cap APPLICATION_MODULES # {} THEN "application"
    ELSE IF imports \cap STDLIB_MODULES # {} THEN "stdlib"
    ELSE "unclassified"

\* the classes of the groups, in order
Classes(groups) == [i \in DOMAIN groups |-> ClassOf(groups[i].imports)]

\* the index of the first group the scan stops at, or 0
Anchor(classes) ==
    LET stops == {i \in DOMAIN classes : classes[i] \in {"third-party", "application"}}
    IN  IF stops = {} THEN 0 ELSE MinOf(stops)

\* what the scan does with groups of these classes
Planned(groups, classes, anchor) ==
    IF anchor # 0 /\ classes[anchor] = "third-party"
    THEN /\ res.ok
         /\ res.kind = "into"
         /\ groups[anchor].start <= res.pos
         /\ res.pos <= groups[anchor].end
    ELSE IF anchor # 0
    THEN res.ok /\ res.kind = "new" /\ res.pos = groups[anchor].start
    ELSE IF \E i \in DOMAIN classes : classes[i] = "stdlib"
    THEN res.ok /\ res.kind = "new" /\ res.pos = groups[Len(groups)].end
    ELSE ~res.ok /\ res.error = "placement"

\* the scan of the groups, from their classes
PlannedFor(groups) ==
    (Len(groups) # 3 /\ (groups = <<>> => LeadingFutureGroup(pre))) =>
        Planned(groups, Classes(groups), Anchor(Classes(groups)))

\* C26: when the groups of a text with import groups are scanned (they are
\* not three), the line is placed as the classes of the groups say, a
\* group being third-party when one of its names starts with a third-party
\* prefix, else application when one of its names is an application name,
\* else stdlib when one of its names is a stdlib name, else unclassified.
C26_ClassifiedByPriority ==
    Inserting => PlannedFor(Considered(pre))

\* the scan met groups of two classes: a group with an application name
\* and a third-party name, taken for the line, or a group with a stdlib
\* name and an application name, with the new group before it; and a group
\* whose names only start with a stdlib and an application name
C26_Witness ==
    /\ Inserting
    /\ Len(Considered(pre)) = 2
    /\ Considered(pre)[1].imports = {"copy_reg", "novaclient"}
    /\ Considered(pre)[2].imports = {"nova", "oslo_config"}
    /\ res.ok
    /\ res.kind = "into"
    /\ res.pos > Considered(pre)[2].start

(***************************************************************************)
(* The groups parse_import_groups returns.                                 *)
(***************************************************************************)
\* each group is a non-empty span that ends at or before the next one starts
GroupsAscending(groups) ==
    \A i \in DOMAIN groups :
        /\ groups[i].start < groups[i].end
        /\ i < Len(groups) => groups[i].end <= groups[i + 1].start

\* the groups are one block: nothing but the groups themselves lies between
\* the start of the first one and the end of the last one
GroupsOneBlock(groups) ==
    \A i \in DOMAIN groups :
        i < Len(groups) => groups[i].end = groups[i + 1].start

\* the import statement of a group that follows non-import code
GroupAfterCode(groups) ==
    \E i \in DOMAIN groups :
        /\ i < Len(groups)
        /\ groups[i].end < groups[i + 1].start

\* C27: the groups of a content are in strictly ascending, non-overlapping
\* order and their spans are exactly the leading import block: an import
\* statement that follows non-import code is in no group.
C27_GroupsAreLeadingBlock ==
    /\ GroupsAscending(parse_import_groups(content))
    /\ GroupsOneBlock(parse_import_groups(content))

\* the part of C27 the program keeps: the order of the groups
C27_GroupsInOrder ==
    GroupsAscending(parse_import_groups(content))

\* a content whose import statement after code is a group, and the line
\* add_import put into that group
C27_GroupAfterCodeTaken ==
    /\ Inserting
    /\ GroupAfterCode(parse_import_groups(pre))
    /\ res.ok
    /\ res.pos >= parse_import_groups(pre)[Len(parse_import_groups(pre))].start

(***************************************************************************)
(* The import lines Urllib adds for 'from urllib import ...' statements.   *)
(***************************************************************************)
\* the 'from urllib|urllib2|urlparse import ...' statements of the text that
\* Urllib rewrites: the lines of the text, less those with parse_http_list
FromUrllibStatements(lines) ==
    {i \in DOMAIN lines :
        /\ \E module \in {"urllib", "urllib2", "urlparse"} :
              StartsWithAt(lines[i], 0, "from " \o module \o " import ")
        /\ ~Contains(lines[i], "parse_http_list")}

\* the symbols a statement imports
ImportedSymbols(line) ==
    Range(Urllib_symbol_names(SliceFrom(line, Find(line, " import ", 0) + 8)))

\* the symbols of the statements that go to the submodule
ImportedTo(lines, submodule) ==
    {name \in UNION {ImportedSymbols(lines[i]) : i \in FromUrllibStatements(lines)} :
        URLLIB(name) = submodule}

\* the lines of the submodule that the text was given
AddedShimLines(before, after, submodule) ==
    {i \in DOMAIN after :
        /\ StartsWithAt(after[i], 0, "from six.moves.urllib." \o submodule \o " import ")
        /\ after[i] \notin Range(before)}

\* the names of the sequence are those of the set, each one once
ListsOnce(names, symbols) ==
    /\ Range(names) = symbols
    /\ Len(names) = Cardinality(symbols)

\* one line for the symbols of the submodule, none without symbols
MergedInto(added, after, symbols) ==
    /\ Cardinality(added) = (IF symbols = {} THEN 0 ELSE 1)
    /\ \A i \in added :
          ListsOnce(Urllib_symbol_names(SliceFrom(after[i], Find(after[i], " import ", 0) + 8)),
                    symbols)

MergedLines(before, after) ==
    \A submodule \in {"error", "parse", "request"} :
        MergedInto(AddedShimLines(before, after, submodule), after,
                   ImportedTo(before, submodule))

\* every symbol of the statements is in a line of its submodule
SymbolsKept(before, after) ==
    \A submodule \in {"error", "parse", "request"} :
        ImportedTo(before, submodule) =
            UNION {ImportedSymbols(after[i]) : i \in AddedShimLines(before, after, submodule)}

\* C28: when Urllib has rewritten the 'from urllib|urllib2|urlparse import'
\* statements of a text, each submodule of six.moves.urllib has at most one
\* added 'from six.moves.urllib.<submodule> import ...' line, and that
\* line lists every symbol of the statements that goes to the submodule
\* exactly once.
C28_OneLinePerSubmodule ==
    (UrllibApplied /\ res.ok) => MergedLines(SplitLines(pre), SplitLines(content))

\* the part of C28 the program keeps: the symbols of the statements are
\* those of the added lines of their submodule
C28_SymbolsKept ==
    (UrllibApplied /\ res.ok) => SymbolsKept(SplitLines(pre), SplitLines(content))

\* two statements with symbols of one submodule have given the text two
\* lines of that submodule
C28_TwoLinesOfRequest ==
    /\ UrllibApplied
    /\ res.ok
    /\ Cardinality(FromUrllibStatements(SplitLines(pre))) = 2
    /\ Cardinality(AddedShimLines(SplitLines(pre), SplitLines(content), "request")) = 2

\* two statements with the same symbol of one submodule have given the
\* text one line of that submodule
C28_OneLineOfRequest ==
    /\ UrllibApplied
    /\ res.ok
    /\ Cardinality(FromUrllibStatements(SplitLines(pre))) = 2
    /\ ImportedTo(SplitLines(pre), "request") = {"urlopen"}
    /\ ImportedTo(SplitLines(pre), "error") = {"URLError"}
    /\ MergedLines(SplitLines(pre), SplitLines(content))

(***************************************************************************)
(* The raise statements of three arguments that Raise rewrites.            *)
(***************************************************************************)
RaiseApplied == req = [op |-> "raise", line |-> ""]

\* the three arguments of the statements 'raise a, b, c' of the text
Raise3Arguments(text) ==
    {<<Slice(text, m[1] + 6, Raise3_first(text, m[1])),
       Slice(text, Raise3_first(text, m[1]) + 2, Raise3_second(text, Raise3_first(text, m[1]))),
       Slice(text, Raise3_second(text, Raise3_first(text, m[1])) + 2, m[2])>> :
        m \in Range(ReFindIter(Regex("Raise.RAISE3_REGEX"), text))}

\* the arguments are e[0], e[1], e[2] of one expression e
SameExpression(args) ==
    /\ EndsWith(args[1], "[0]")
    /\ args[2] = Slice(args[1], 0, Len(args[1]) - 3) \o "[1]"
    /\ args[3] = Slice(args[1], 0, Len(args[1]) - 3) \o "[2]"

\* the call the claim gives for the arguments
Reraise(args) ==
    IF SameExpression(args)
    THEN "six.reraise(*" \o Slice(args[1], 0, Len(args[1]) - 3) \o ")"
    ELSE "six.reraise(" \o args[1] \o ", " \o args[2] \o ", " \o args[3] \o ")"

\* the text has, for each statement, the call of its arguments, and has as
\* many new variadic calls as statements with arguments of one expression
RewrittenTo(statements, before, text) ==
    /\ \A args \in statements : Contains(text, Reraise(args))
    /\ Cardinality(Occurrences(text, "six.reraise(*"))
          = Cardinality(Occurrences(before, "six.reraise(*"))
            + Cardinality({m \in Range(ReFindIter(Regex("Raise.RAISE3_REGEX"), before)) :
                SameExpression(CHOOSE args \in Raise3Arguments(Slice(before, m[1], m[2])) : TRUE)})

\* C29: Raise rewrites 'raise a, b, c' to six.reraise(*e) if and only if
\* a, b, c are e[0], e[1], e[2] of one expression e; every other statement
\* of three arguments becomes six.reraise(a, b, c).
C29_VariadicIffSameExpression ==
    (RaiseApplied /\ res.ok) => RewrittenTo(Raise3Arguments(pre), pre, content)

\* the part of C29 the program keeps: statements whose arguments do not end
\* with [0], [1], [2] keep their arguments, and those of one expression get
\* the variadic call
C29_OtherArgumentsKept ==
    (RaiseApplied /\ res.ok) =>
        \A args \in Raise3Arguments(pre) :
            (SameExpression(args)
             \/ ~(EndsWith(args[1], "[0]") /\ EndsWith(args[2], "[1]") /\ EndsWith(args[3], "[2]")))
                => Contains(content, Reraise(args))

\* Raise has rewritten a statement whose arguments are the items 0, 1, 2 of
\* three expressions to a variadic call of the first
C29_VariadicOfThree ==
    /\ RaiseApplied
    /\ res.ok
    /\ Raise3Arguments(pre) = {<<"a[0]", "b[1]", "c[2]">>}
    /\ Contains(content, "six.reraise(*a)")

\* Raise has rewritten the items of one expression to a variadic call
C29_VariadicOfOne ==
    /\ RaiseApplied
    /\ res.ok
    /\ Raise3Arguments(pre) = {<<"exc[0]", "exc[1]", "exc[2]">>}
    /\ Contains(content, "six.reraise(*exc)")
    /\ LineSearch("import six", content)

(***************************************************************************)
(* The loops of add_import_names end.                                      *)
(***************************************************************************)
\* the line an iteration of the while loop reads
ScanRead == get_line(content, loop_pos)

\* a step of a loop: an iteration of the loop of parse_import_groups ends
\* after the position it started at; the line the while loop reads in the
\* span of its group is not empty and ends in the span; an iteration of the
\* while loop ends after the position it started at
LoopAdvances ==
    /\ (pc = "parse" /\ pc' = "parse") => loop_pos' > loop_pos
    /\ (pc = "scan" /\ loop_pos < ScanGroup.end) =>
          /\ ScanRead # ""
          /\ loop_pos + Len(ScanRead) <= ScanGroup.end
    /\ (pc = "scan" /\ pc' = "scan") => loop_pos' > loop_pos

\* C30: add_import_names returns for every content and import line: every
\* iteration of the loop of parse_import_groups and of the while loop that
\* looks for the place in the group moves the position forward, the lines
\* read in the span of a group being non-empty and ending in the span.
C30_Terminates ==
    [][LoopAdvances]_vars /\ <>(pc = "ready")

\* what add_import_names returns after its iterations is what it returns
\* when it is taken as one step
C30_SameResult ==
    pc = "ready" =>
        res = add_import_names(pre, req.line, parse_import(req.line).names)

\* add_import_names has returned after two iterations of the loop of
\* parse_import_groups and an iteration at least of the while loop
C30_Witness ==
    /\ pc = "ready"
    /\ req.op = "add_import_names"
    /\ Len(loop_groups) >= 2
    /\ res.ok
    /\ res.kind = "into"
    /\ res.pos = loop_pos
    /\ loop_pos > ScanGroup.start

====
